---- MODULE Spec2Model ----
(***************************************************************************)
(* Digital-Signage-v3: content synchronisation and playback rotation.      *)
(*                                                                         *)
(* Part I   - the sync cycle of components/SignageDisplay.tsx (loadContent,*)
(*            the refresh interval, the retry timers) over the cache of    *)
(*            services/AssetDownloader.ts (clearCache, downloadAssets,     *)
(*            saveCacheManifest, getCachedAssets).                         *)
(* Part II  - the rotation script that createHTMLWithData embeds in the    *)
(*            page (showContent, scheduleNext, skipToNext, rotateToNext).  *)
(* Part III - the legacy rotation script (unnamed/part_000).               *)
(* Part IV  - the single-component player of unnamed/part_003              *)
(*            (fetchPlaylist, switchToNextAsset, initializeApp,            *)
(*            startPeriodicCheck, scheduleRetry).                          *)
(* Part V   - the playlist selection of services/Api.ts (isPlaylistActive, *)
(*            fetchPlaylist), taken alone.                                 *)
(* Part VI  - the asset paths of unnamed/part_003 (getAssetPath,           *)
(*            isAssetCached, downloadAndCacheAsset).                       *)
(* Part VII - the connectivity probe (checkInternetConnection) and the     *)
(*            device name (services/DeviceName.ts, getDeviceName of        *)
(*            unnamed/part_003), each taken alone.                         *)
(*                                                                         *)
(* Every await of the TypeScript is a suspension point: a handler is cut   *)
(* into one action per stretch of code between two awaits, and timers and  *)
(* native completions interleave freely (one JavaScript thread).           *)
(***************************************************************************)
EXTENDS Integers, Sequences, FiniteSets, TLC

(***************************************************************************)
(* Bounds of the model.                                                    *)
(***************************************************************************)
\* loadContent runs started in one behaviour (initial load included)
MaxCycles == 3
\* edits of the remote playlist in one behaviour
MaxEdits == 1
\* items of a rotation list
MaxItems == 2
\* timers of one kind pending at the same time
MaxPending == 2
\* page loads with a new list in one behaviour
MaxReloads == 1
\* the value of retryCount at which the model stops following the retries of
\* the player's initialisation (above MAX_RETRIES, so that exceeding it shows)
MaxRetryCount == 6

(***************************************************************************)
(* Part I - data                                                           *)
(***************************************************************************)
\* Api.ts Asset: time and playing_order are strings on the wire; a string is
\* modelled as the sequence of its characters.
MkAsset(fp, ft, t, po, nm) ==
  [filepath |-> fp, filetype |-> ft, time |-> t, playing_order |-> po, name |-> nm]

Digits == <<"0", "1", "2", "3", "4", "5", "6", "7", "8", "9">>

IsDigit(ch) == \E i \in 1..10 : Digits[i] = ch

DigitVal(ch) == (CHOOSE i \in 1..10 : Digits[i] = ch) - 1

NaN == -1000000

RECURSIVE ParseDigits(_, _, _)
\* the value of the longest run of digits of s starting at position i
ParseDigits(s, i, acc) ==
  IF i > Len(s) \/ ~IsDigit(s[i]) THEN acc
  ELSE ParseDigits(s, i + 1, 10 * acc + DigitVal(s[i]))

RECURSIVE SkipSpaces(_, _)
SkipSpaces(s, i) ==
  IF i <= Len(s) /\ s[i] = " " THEN SkipSpaces(s, i + 1) ELSE i

\* JavaScript parseInt(s): leading white space, an optional sign, then the
\* longest run of decimal digits; NaN when there is no digit.
ParseInt(s) ==
  LET i == SkipSpaces(s, 1)
      neg == i <= Len(s) /\ s[i] = "-"
      j == IF i <= Len(s) /\ (s[i] = "-" \/ s[i] = "+") THEN i + 1 ELSE i
  IN IF j > Len(s) \/ ~IsDigit(s[j]) THEN NaN
     ELSE IF neg THEN 0 - ParseDigits(s, j, 0) ELSE ParseDigits(s, j, 0)

ImageTypes == {"jpg", "jpeg", "png", "gif", "webp"}
VideoTypes == {"mp4", "webm", "mov", "avi"}
WebTypes == {"url", "html", "stream"}

\* filetype.toLowerCase() for the file types of the model
ToLower(ft) == IF ft = "PNG" THEN "png" ELSE ft

\* the three families of downloadSingleAsset; "none" is the final throw
Classify(ft) ==
  IF ToLower(ft) \in ImageTypes THEN "image"
  ELSE IF ToLower(ft) \in VideoTypes THEN "video"
  ELSE IF ToLower(ft) \in WebTypes THEN "web"
  ELSE "none"

\* a LocalAsset's url: a file of the cache directory, or the remote address
CacheUrl(n) == [kind |-> "cache", id |-> n, path |-> ""]
RemoteUrl(fp) == [kind |-> "remote", id |-> 0, path |-> fp]

MkLocal(ty, u, d, nm) == [type |-> ty, url |-> u, duration |-> d, name |-> nm]

\* the resolved asset lists the server can answer with
AssetA == MkAsset("a", "png", <<"2">>, <<"1">>, "A")
AssetARenamed == MkAsset("a", "png", <<"2">>, <<"1">>, "A2")
AssetB == MkAsset("b", "url", <<"5">>, <<"2">>, "B")
AssetC == MkAsset("c", "mp4", <<"3">>, <<"2">>, "C")
\* an asset fetchPlaylist drops: its time is not positive
AssetZero == MkAsset("z", "png", <<"0">>, <<"0">>, "Z")

\* assets fetchPlaylist drops: the filepath is empty, the time is missing
AssetNoPath == MkAsset("", "png", <<"5">>, <<"1">>, "P")
AssetNoTime == MkAsset("t", "png", <<>>, <<"1">>, "T")

\* an asset downloadSingleAsset cannot resolve: its type is in no family
AssetX == MkAsset("x", "pdf", <<"4">>, <<"2">>, "X")

\* an asset the payload gives no playing_order for
AssetM == MkAsset("m", "html", <<"4">>, <<>>, "M")

\* lists that mix the three families with an unsupported type, in and out of
\* playing order, with equal and with missing playing_order
DlPayloads ==
  { <<AssetA, AssetX, AssetC>>, <<AssetX>>, <<AssetX, AssetB>>, <<AssetC, AssetA>>,
    <<AssetB, AssetC>>, <<AssetC, AssetA, AssetM, AssetB>> }

Payloads ==
  { <<AssetA, AssetB>>, <<AssetARenamed, AssetB>>, <<AssetZero, AssetC>>, <<>>,
    <<AssetNoPath, AssetNoTime>> }


(***************************************************************************)
(* State                                                                   *)
(***************************************************************************)
\* (variant used to test C20) the filter looking at the filepath only
PlayableAnyTime(asset) == asset.filepath # ""

\* the filter of fetchPlaylist
Playable(asset) == asset.filepath # "" /\ asset.time # <<>> /\ ParseInt(asset.time) > 0

OrderOf(asset) == ParseInt(IF asset.playing_order = <<>> THEN <<"0">> ELSE asset.playing_order)

RECURSIVE InsertBeforeEqual(_, _)
\* (variant used to test C29) a sort that puts an asset before those of
\* equal playing_order
InsertBeforeEqual(sorted, asset) ==
  IF sorted = <<>> THEN <<asset>>
  ELSE IF OrderOf(Head(sorted)) >= OrderOf(asset)
       THEN <<asset>> \o sorted
       ELSE <<Head(sorted)>> \o InsertBeforeEqual(Tail(sorted), asset)

RECURSIVE InsertByOrder(_, _)
\* the place a stable sort by playing_order gives to asset among the
\* already sorted `sorted`
InsertByOrder(sorted, asset) ==
  IF sorted = <<>> THEN <<asset>>
  ELSE IF OrderOf(Head(sorted)) > OrderOf(asset)
       THEN <<asset>> \o sorted
       ELSE <<Head(sorted)>> \o InsertByOrder(Tail(sorted), asset)

RECURSIVE SortByOrder(_)
SortByOrder(as) ==
  IF as = <<>> THEN <<>>
  ELSE InsertByOrder(SortByOrder(SubSeq(as, 1, Len(as) - 1)), as[Len(as)])

\* fetchPlaylist's result for the assets of the playlist it has chosen
ResolvePlaylist(playlist) == SortByOrder(SelectSeq(playlist, Playable))

VARIABLES
  \* --- Part I: SignageDisplay.tsx / AssetDownloader.ts ---
  mounted,            \* the component is mounted (effects have run)
  cyc,                \* the loadContent runs: position and locals of each
  ncyc,               \* number of loadContent runs started so far
  lastFetchedAssets,  \* useRef<Asset[]>: the list change detection compares with
  htmlContent,        \* useState: the LocalAsset list embedded in the page ("" is <<>>)
  isLoading,          \* useState
  error,              \* useState
  isOffline,          \* useState
  retryTimers,        \* pending setTimeout(loadContent, retryDelay) callbacks
  files,              \* media files present in CACHE_DIR
  manifest,           \* CACHE_DIR/manifest.json
  nextFile,           \* stands for the fresh `${Date.now()}_${Math.random()}` names
  remote,             \* the list the server currently resolves to
  edits,              \* number of remote edits so far
  \* --- history of Part I (read by the properties only) ---
  audit,              \* per run: what it did
  lastFetcher,        \* the run whose fetch returned last
  goodManifest        \* entries saved by the last run whose downloads all succeeded

syncVars ==
  <<mounted, cyc, ncyc, lastFetchedAssets, htmlContent, isLoading, error, isOffline,
    retryTimers, files, manifest, nextFile, remote, edits, audit, lastFetcher,
    goodManifest>>

VARIABLES
  \* --- Part II: the rotation script of createHTMLWithData ---
  contentList,        \* const contentList: the types of the embedded LocalAssets
  currentIndex,       \* let currentIndex
  isTransitioning,    \* let isTransitioning
  rotationTimeout,    \* the timer `rotationTimeout` refers to is pending
  armedMs,            \* the delay (ms) that timer was armed with (0: none pending)
  orphanTimers,       \* pending scheduleNext timers no variable refers to any more
  showTimers,         \* pending setTimeout(showContent, 50) of rotateToNext
  transTimer,         \* the setTimeout(..., 100) of showContent is pending
  skipTimers,         \* pending setTimeout(rotateToNext, 250) of skipToNext
  webContentLoadTimeout, \* the 10 s timer is pending
  videoLoadTimeout,   \* the 5 s timer is pending
  frameHandler,       \* frame.onload/onerror: "none" or "armed" (webContentLoaded false)
  imagePending,       \* test images whose onload/onerror has not fired yet
  videoHandler,       \* video.onerror/oncanplay: "none" or "armed" (videoLoaded false)
  playPending,        \* video.play() promises not settled yet
  failSignals,        \* (history) failures reported since the last item was loaded
  visible,            \* the element shown: "none", "web", "image", "video"
  \* --- history of Part II ---
  loadedIndex,        \* index of the item showContent loaded last (-1: none yet)
  prevLoaded,         \* the value of loadedIndex before that
  reloads             \* page loads with a new list so far

rotVars ==
  <<contentList, currentIndex, isTransitioning, rotationTimeout, armedMs, orphanTimers,
    showTimers, transTimer, skipTimers, webContentLoadTimeout, videoLoadTimeout, frameHandler,
    imagePending, videoHandler, playPending, visible, loadedIndex, prevLoaded, reloads,
    failSignals>>

VARIABLES
  assets,             \* state: the list being played
  currentAssetIndex,  \* state
  isPlaying,          \* state
  transitioningRef,   \* isTransitioning.current
  playbackTimer,      \* playbackTimer.current, with the index and length its callback sees
  retryTimer,         \* retryTimer.current
  errorSkipTimers,    \* the setTimeout(switchToNextAsset, 1000) of the renderer
  transitionTimers,   \* the setTimeout(..., 100) of switchToNextAsset
  startTimers,        \* the setTimeout(() => setIsPlaying(true), 500)
  lastApiResponseRef, \* the last response fetchPlaylist has seen
  initPc,             \* where initializeApp stands
  check,              \* where the periodic check stands, and the assets.length it sees
  appError,           \* state: error
  retryCount,         \* state
  listGen,            \* (history) how many lists have been handed over
  awaitingRestart,    \* (history) a list was handed over and has not started playing
  observed            \* (history) the list the last periodic check has resolved

appVars ==
  <<assets, currentAssetIndex, isPlaying, transitioningRef, playbackTimer, retryTimer,
    errorSkipTimers, transitionTimers, startTimers, lastApiResponseRef, initPc, check,
    appError, retryCount, listGen, awaitingRestart, observed>>

VARIABLES
  \* --- the surroundings of the component ---
  unmounted,          \* the component has been unmounted (effect cleanups have run)
  restarting          \* functions.is_restarting of the server's current answer

envVars == <<unmounted, restarting>>

VARIABLES
  \* --- playlist selection (Api.ts, fetchPlaylist) taken alone ---
  playlists,          \* data.playlists of the response being resolved
  now,                \* const now = new Date()
  activePlaylist      \* index of the playlist chosen (0: not resolved yet, -1: thrown)

selVars == <<playlists, now, activePlaylist>>

VARIABLES
  \* --- the asset cache of unnamed/part_003 (getAssetPath) taken alone ---
  cacheDir,           \* the files of CACHE_DIR: name and content of each
  downloadQueue,      \* downloadQueue.current
  networkStatus,      \* state: networkStatus
  pathCalls           \* the calls of getAssetPath: position, asset, value resolved

pathVars == <<cacheDir, downloadQueue, networkStatus, pathCalls>>

VARIABLES
  \* --- checkInternetConnection and getDeviceName taken alone ---
  probe,              \* the call of checkInternetConnection: position, retries, i,
                      \* the value returned and (history) its attempts
  deviceNameItem,     \* AsyncStorage item "deviceName" (<<>>: no such item)
  androidDeviceName,  \* the device name of the Android settings (<<>>: none)
  dateNow,            \* Date.now()
  deviceCalls         \* the calls of getDeviceName: position, name, value returned

idVars == <<deviceNameItem, androidDeviceName, dateNow, deviceCalls>>

svcVars == <<probe, idVars>>

vars == <<syncVars, rotVars, appVars, envVars, selVars, pathVars, svcVars>>

\* what the actions of Part I leave alone, those of Part II and of Part IV
notSync == <<rotVars, appVars, envVars, selVars, pathVars, svcVars>>
notRot == <<syncVars, appVars, envVars, selVars, pathVars, svcVars>>
notApp == <<syncVars, rotVars, envVars, selVars, pathVars, svcVars>>

Cycles == 1..MaxCycles

\* CACHE_DIR/manifest.json: whether the file exists, what it holds ("manifest":
\* a CacheManifest as saveCacheManifest writes it; "garbled": not JSON;
\* "noassets": JSON without an assets array; "unreadable": the read fails),
\* and the entries its bytes stand for
NoManifest == [present |-> FALSE, content |-> "none", assets |-> <<>>]

ManifestFile(content, as) == [present |-> TRUE, content |-> content, assets |-> as]

IdleCycle == [pc |-> "idle", force |-> FALSE, assets |-> <<>>, local |-> <<>>, k |-> 0]

NoAudit ==
  [cleared |-> FALSE, attempts |-> 0, handed |-> FALSE, outcome |-> "none",
   fetched |-> <<>>, prev |-> 0, doneAtStart |-> {}, goodAtClear |-> <<>>,
   failed |-> {}]

(***************************************************************************)
(* Part I - the cache (AssetDownloader.ts)                                 *)
(***************************************************************************)
\* (variant used to test C25) the loop of getCachedAssets without the file
\* check
ValidAssetsUnchecked(as, fs) == as

RECURSIVE ValidAssets(_, _)
\* getCachedAssets' loop: web entries are kept, the others need their file
ValidAssets(as, fs) ==
  IF as = <<>> THEN <<>>
  ELSE LET a == Head(as)
           rest == ValidAssets(Tail(as), fs)
       IN IF a.type = "web" THEN <<a>> \o rest
          ELSE IF a.url.kind = "cache" /\ a.url.id \in fs THEN <<a>> \o rest
          ELSE rest

\* (variant used to test C26) getCachedAssets taking whatever entries can be
\* recovered from a damaged manifest
GetCachedAssetsLenient(m, fs) ==
  IF ~m.present THEN <<>> ELSE ValidAssets(m.assets, fs)

\* getCachedAssets: no manifest file returns []; a failing read, a failing
\* JSON.parse and a missing assets array throw inside the try block, whose
\* catch returns []
GetCachedAssets(m, fs) ==
  IF ~m.present THEN <<>>
  ELSE IF m.content # "manifest" THEN <<>>
  ELSE ValidAssets(m.assets, fs)

\* downloadSingleAsset on an asset that needs no transfer: the web family
\* returns at once, an unsupported type throws (caught by downloadAssets)
WebLocal(a) == MkLocal("web", RemoteUrl(a.filepath), ParseInt(a.time), a.name)

\* downloadSingleAsset, image/video family, after downloadAsync answered 200
FileLocal(a, id) == MkLocal(Classify(a.filetype), CacheUrl(id), ParseInt(a.time), a.name)

NeedsTransfer(a) == Classify(a.filetype) \in {"image", "video"}

RECURSIVE Advance(_, _, _)
\* downloadAssets' loop from position k on, up to the next asset whose
\* resolution awaits a transfer: [k, local]
Advance(as, k, local) ==
  IF k > Len(as) THEN [k |-> k, local |-> local]
  ELSE IF NeedsTransfer(as[k]) THEN [k |-> k, local |-> local]
  ELSE IF Classify(as[k].filetype) = "web"
       THEN Advance(as, k + 1, Append(local, WebLocal(as[k])))
       ELSE Advance(as, k + 1, local)

(***************************************************************************)
(* Part I - change detection (SignageDisplay.tsx)                          *)
(***************************************************************************)
\* (variant used to test C4) the elements compared by identity instead of
\* field by field: freshly parsed assets are never identical
AssetsAreEqualByIdentity(assets1, assets2) ==
  Len(assets1) = Len(assets2) /\ Len(assets1) = 0

AssetsAreEqual(assets1, assets2) ==
  IF Len(assets1) # Len(assets2) THEN FALSE
  ELSE \A i \in 1..Len(assets1) :
         /\ assets1[i].filepath = assets2[i].filepath
         /\ assets1[i].filetype = assets2[i].filetype
         /\ assets1[i].time = assets2[i].time
         /\ assets1[i].playing_order = assets2[i].playing_order
         /\ assets1[i].name = assets2[i].name

ContentChanged(forceDownload, fetched, last) ==
  forceDownload \/ ~AssetsAreEqual(fetched, last)


(***************************************************************************)
(* Part I - loadContent (SignageDisplay.tsx), one action per stretch of    *)
(* code between two awaits                                                 *)
(***************************************************************************)
Running(c) == cyc[c].pc \notin {"idle", "done"}

InFlight == {c \in Cycles : Running(c)}

\* loadContent(force) is called: the code up to the first await
StartCycle(force) ==
  LET c == ncyc + 1 IN
  /\ ncyc < MaxCycles
  /\ UNCHANGED notSync
  /\ ncyc' = c
  /\ cyc' = [cyc EXCEPT ![c] = [IdleCycle EXCEPT !.pc = "probe", !.force = force]]
  /\ audit' = [audit EXCEPT ![c] =
                 [NoAudit EXCEPT !.doneAtStart = {d \in Cycles : cyc[d].pc = "done"}]]
  /\ isLoading' = TRUE
  /\ error' = ""

\* the catch and finally blocks of loadContent
Fail(c, msg) ==
  /\ error' = msg
  /\ retryTimers' = retryTimers + 1
  /\ isLoading' = FALSE
  /\ cyc' = [cyc EXCEPT ![c] = [IdleCycle EXCEPT !.pc = "done"]]

\* the mount effects: loadContent(true) and the refresh interval
Mount ==
  /\ ~mounted
  /\ mounted' = TRUE
  /\ StartCycle(TRUE)
  /\ UNCHANGED <<lastFetchedAssets, htmlContent, isOffline, retryTimers, files, manifest,
                 nextFile, remote, edits, lastFetcher, goodManifest>>

\* the setInterval callback: loadContent()
RefreshTick ==
  /\ mounted
  /\ ~unmounted
  /\ StartCycle(FALSE)
  /\ UNCHANGED <<mounted, lastFetchedAssets, htmlContent, isOffline, retryTimers, files,
                 manifest, nextFile, remote, edits, lastFetcher, goodManifest>>

\* a retry/reconnect setTimeout callback: loadContent()
RetryFire ==
  /\ retryTimers > 0
  /\ retryTimers' = retryTimers - 1
  /\ StartCycle(FALSE)
  /\ UNCHANGED <<mounted, lastFetchedAssets, htmlContent, isOffline, files, manifest,
                 nextFile, remote, edits, lastFetcher, goodManifest>>

\* getDeviceName and checkInternetConnection have answered
Probe(c, hasInternet) ==
  /\ cyc[c].pc = "probe"
  /\ isOffline' = ~hasInternet
  /\ cyc' = [cyc EXCEPT ![c].pc = IF hasInternet THEN "fetch" ELSE "cached"]
  /\ UNCHANGED <<mounted, ncyc, lastFetchedAssets, htmlContent, isLoading, error,
                 retryTimers, files, manifest, nextFile, remote, edits, audit,
                 lastFetcher, goodManifest>>
  /\ UNCHANGED notSync

\* (variant used to test C11) the offline path going on to the playlist
\* fetch after it has loaded the cached content
OfflineLoadThenFetch(c) ==
  LET cachedAssets == GetCachedAssets(manifest, files) IN
  /\ cyc[c].pc = "cached"
  /\ IF Len(cachedAssets) > 0
     THEN /\ htmlContent' = cachedAssets
          /\ isLoading' = FALSE
          /\ retryTimers' = retryTimers + 1
          /\ cyc' = [cyc EXCEPT ![c].pc = "fetch"]
          /\ audit' = [audit EXCEPT ![c].outcome = "offline", ![c].handed = TRUE]
          /\ UNCHANGED error
     ELSE /\ Fail(c, "No internet connection and no cached content available")
          /\ audit' = [audit EXCEPT ![c].outcome = "error"]
          /\ UNCHANGED htmlContent
  /\ UNCHANGED <<mounted, ncyc, lastFetchedAssets, isOffline, files, manifest, nextFile,
                 remote, edits, lastFetcher, goodManifest>>
  /\ UNCHANGED notSync

\* (variant used to test C30) the offline path handing over whatever
\* getCachedAssets returned
OfflineLoadUnchecked(c) ==
  LET cachedAssets == GetCachedAssets(manifest, files) IN
  /\ cyc[c].pc = "cached"
  /\ htmlContent' = cachedAssets
  /\ isLoading' = FALSE
  /\ retryTimers' = retryTimers + 1
  /\ cyc' = [cyc EXCEPT ![c] = [IdleCycle EXCEPT !.pc = "done"]]
  /\ audit' = [audit EXCEPT ![c].outcome = "offline", ![c].handed = TRUE]
  /\ UNCHANGED error
  /\ UNCHANGED <<mounted, ncyc, lastFetchedAssets, isOffline, files, manifest, nextFile,
                 remote, edits, lastFetcher, goodManifest>>
  /\ UNCHANGED notSync

\* offline path: getCachedAssets has answered
OfflineLoad(c) ==
  LET cachedAssets == GetCachedAssets(manifest, files) IN
  /\ cyc[c].pc = "cached"
  /\ IF Len(cachedAssets) > 0
     THEN /\ htmlContent' = cachedAssets
          /\ isLoading' = FALSE
          /\ retryTimers' = retryTimers + 1
          /\ cyc' = [cyc EXCEPT ![c] = [IdleCycle EXCEPT !.pc = "done"]]
          /\ audit' = [audit EXCEPT ![c].outcome = "offline", ![c].handed = TRUE]
          /\ UNCHANGED error
     ELSE /\ Fail(c, "No internet connection and no cached content available")
          /\ audit' = [audit EXCEPT ![c].outcome = "error"]
          /\ UNCHANGED htmlContent
  /\ UNCHANGED <<mounted, ncyc, lastFetchedAssets, isOffline, files, manifest, nextFile,
                 remote, edits, lastFetcher, goodManifest>>
  /\ UNCHANGED notSync

\* online path: fetchPlaylist has answered (ok) or thrown (~ok); then the
\* comparison with the previous list, up to the await of clearCache
Fetch(c, ok) ==
  LET fetched == ResolvePlaylist(remote) IN
  /\ cyc[c].pc = "fetch"
  /\ IF ~ok
     THEN /\ Fail(c, "API fetch error")
          /\ audit' = [audit EXCEPT ![c].outcome = "error"]
          /\ UNCHANGED <<lastFetchedAssets, lastFetcher>>
     ELSE IF Len(fetched) = 0
     THEN /\ Fail(c, "No valid assets found in playlist")
          /\ audit' = [audit EXCEPT ![c].outcome = "error"]
          /\ UNCHANGED <<lastFetchedAssets, lastFetcher>>
     ELSE IF ~ContentChanged(cyc[c].force, fetched, lastFetchedAssets)
     THEN /\ isLoading' = FALSE
          /\ cyc' = [cyc EXCEPT ![c] = [IdleCycle EXCEPT !.pc = "done"]]
          /\ audit' = [audit EXCEPT ![c].outcome = "unchanged", ![c].fetched = fetched,
                                    ![c].prev = lastFetcher]
          /\ lastFetcher' = c
          /\ UNCHANGED <<lastFetchedAssets, error, retryTimers>>
     ELSE /\ lastFetchedAssets' = fetched
          /\ cyc' = [cyc EXCEPT ![c].pc = "clear", ![c].assets = fetched]
          /\ audit' = [audit EXCEPT ![c].fetched = fetched, ![c].prev = lastFetcher]
          /\ lastFetcher' = c
          /\ UNCHANGED <<isLoading, error, retryTimers>>
  /\ UNCHANGED <<mounted, ncyc, htmlContent, isOffline, files, manifest, nextFile, remote,
                 edits, goodManifest>>
  /\ UNCHANGED notSync

\* where downloadAssets stands after its loop reached position k with `local`
\* resolved: awaiting a transfer, awaiting the manifest write, or returned empty
\* (`failed`: the positions whose transfer has not answered 200 so far)
AfterAdvance(c, k, local, failed) ==
  LET r == Advance(cyc[c].assets, k, local) IN
  IF r.k <= Len(cyc[c].assets)
  THEN /\ cyc' = [cyc EXCEPT ![c].pc = "download", ![c].k = r.k, ![c].local = r.local]
       /\ UNCHANGED <<error, retryTimers, isLoading>>
       /\ audit' = [audit EXCEPT ![c].attempts = @ + 1, ![c].cleared = TRUE,
                                 ![c].failed = failed,
                                 ![c].goodAtClear =
                                   IF audit[c].cleared THEN @ ELSE goodManifest]
  ELSE IF Len(r.local) > 0
  THEN /\ cyc' = [cyc EXCEPT ![c].pc = "save", ![c].k = r.k, ![c].local = r.local]
       /\ UNCHANGED <<error, retryTimers, isLoading>>
       /\ audit' = [audit EXCEPT ![c].cleared = TRUE, ![c].failed = failed,
                                 ![c].goodAtClear =
                                   IF audit[c].cleared THEN @ ELSE goodManifest]
  ELSE /\ Fail(c, "Failed to download any assets")
       /\ audit' = [audit EXCEPT ![c].outcome = "error", ![c].cleared = TRUE,
                                 ![c].failed = failed,
                                 ![c].goodAtClear =
                                   IF audit[c].cleared THEN @ ELSE goodManifest]

\* clearCache has emptied and recreated CACHE_DIR; downloadAssets starts
ClearCache(c) ==
  /\ cyc[c].pc = "clear"
  /\ files' = {}
  /\ manifest' = NoManifest
  /\ AfterAdvance(c, 1, <<>>, {})
  /\ UNCHANGED <<mounted, ncyc, lastFetchedAssets, htmlContent, isOffline, nextFile,
                 remote, edits, lastFetcher, goodManifest>>
  /\ UNCHANGED notSync

\* (variant used to test C21) downloadAssets without the try/catch around
\* downloadSingleAsset: a status other than 200 ends the run in its catch block
DownloadDoneAborts(c, status200) ==
  LET a == cyc[c].assets[cyc[c].k] IN
  /\ cyc[c].pc = "download"
  /\ IF status200
     THEN /\ files' = files \cup {nextFile}
          /\ nextFile' = nextFile + 1
          /\ AfterAdvance(c, cyc[c].k + 1, Append(cyc[c].local, FileLocal(a, nextFile)),
                          audit[c].failed)
     ELSE /\ UNCHANGED <<files, nextFile>>
          /\ Fail(c, "Download failed")
          /\ audit' = [audit EXCEPT ![c].outcome = "error",
                                    ![c].failed = @ \cup {cyc[c].k}]
  /\ UNCHANGED <<mounted, ncyc, lastFetchedAssets, htmlContent, isOffline, manifest,
                 remote, edits, lastFetcher, goodManifest>>
  /\ UNCHANGED notSync

\* FileSystem.downloadAsync for asset k has answered: status 200 or another
DownloadDone(c, status200) ==
  LET a == cyc[c].assets[cyc[c].k] IN
  /\ cyc[c].pc = "download"
  /\ IF status200
     THEN /\ files' = files \cup {nextFile}
          /\ nextFile' = nextFile + 1
          /\ AfterAdvance(c, cyc[c].k + 1, Append(cyc[c].local, FileLocal(a, nextFile)),
                          audit[c].failed)
     ELSE /\ UNCHANGED <<files, nextFile>>
          /\ AfterAdvance(c, cyc[c].k + 1, cyc[c].local, audit[c].failed \cup {cyc[c].k})
  /\ UNCHANGED <<mounted, ncyc, lastFetchedAssets, htmlContent, isOffline, manifest,
                 remote, edits, lastFetcher, goodManifest>>
  /\ UNCHANGED notSync

\* saveCacheManifest has written the manifest; downloadAssets returns and
\* loadContent hands the list to the page
SaveAndHandoff(c) ==
  /\ cyc[c].pc = "save"
  /\ manifest' = ManifestFile("manifest", cyc[c].local)
  /\ htmlContent' = cyc[c].local
  /\ isLoading' = FALSE
  /\ goodManifest' =
       IF Len(cyc[c].local) = Len(cyc[c].assets) THEN cyc[c].local ELSE goodManifest
  /\ audit' = [audit EXCEPT ![c].outcome =
                 IF Len(cyc[c].local) = Len(cyc[c].assets) THEN "ok" ELSE "partial",
                            ![c].handed = TRUE]
  /\ cyc' = [cyc EXCEPT ![c] = [IdleCycle EXCEPT !.pc = "done"]]
  /\ UNCHANGED <<mounted, ncyc, lastFetchedAssets, error, isOffline, retryTimers, files,
                 nextFile, remote, edits, lastFetcher>>
  /\ UNCHANGED notSync

\* the operator edits the playlist on the server
RemoteEdit(p) ==
  /\ edits < MaxEdits
  /\ p # remote
  /\ remote' = p
  /\ edits' = edits + 1
  /\ UNCHANGED <<mounted, cyc, ncyc, lastFetchedAssets, htmlContent, isLoading, error,
                 isOffline, retryTimers, files, manifest, nextFile, audit, lastFetcher,
                 goodManifest>>
  /\ UNCHANGED notSync

\* (variant used to test C17) the render showing the error state whenever
\* an error is set
ScreenErrorFirst ==
  IF isLoading /\ htmlContent = <<>> THEN "loading"
  ELSE IF error # "" THEN "error"
  ELSE "page"

\* what SignageDisplay renders: the loading state, the error state, or the
\* view that holds the page
Screen ==
  IF isLoading /\ htmlContent = <<>> THEN "loading"
  ELSE IF error # "" /\ htmlContent = <<>> THEN "error"
  ELSE "page"

\* the server raises or lowers functions.is_restarting in its answers
RestartSignal ==
  /\ edits < MaxEdits
  /\ restarting' = ~restarting
  /\ edits' = edits + 1
  /\ UNCHANGED <<mounted, cyc, ncyc, lastFetchedAssets, htmlContent, isLoading, error,
                 isOffline, retryTimers, files, manifest, nextFile, remote, audit,
                 lastFetcher, goodManifest>>
  /\ UNCHANGED <<rotVars, appVars, selVars, pathVars, svcVars, unmounted>>

\* the component is unmounted: the cleanup of the refresh-interval effect
\* clears the interval; the setTimeout handles of loadContent are not kept,
\* and the runs in flight go on
Unmount ==
  /\ mounted
  /\ ~unmounted
  /\ unmounted' = TRUE
  /\ UNCHANGED syncVars
  /\ UNCHANGED <<rotVars, appVars, selVars, pathVars, svcVars, restarting>>

\* no response is being resolved by the selection taken alone
NoSelection ==
  /\ playlists = <<>>
  /\ now = [day |-> 0, weekday |-> "Mon", time |-> <<>>]
  /\ activePlaylist = 0

\* the asset cache of unnamed/part_003 before any call of getAssetPath
NoPathCalls ==
  /\ cacheDir = {}
  /\ downloadQueue = {}
  /\ networkStatus = TRUE
  /\ pathCalls = <<>>

\* checkInternetConnection before its call
IdleProbe == [pc |-> "idle", retries |-> 0, i |-> 0, result |-> "none", log |-> <<>>]

\* no call of checkInternetConnection or getDeviceName yet; no item stored
NoServiceCalls ==
  /\ probe = IdleProbe
  /\ deviceNameItem = <<>>
  /\ androidDeviceName = <<>>
  /\ dateNow = 0
  /\ deviceCalls = <<>>

\* the cache a previous run of the process left behind
PrevRunLocal == <<FileLocal(AssetA, 1), WebLocal(AssetB)>>

\* the component as constructed, whatever the cache directory holds
SyncStart ==
  /\ mounted = FALSE
  /\ cyc = [c \in Cycles |-> IdleCycle]
  /\ ncyc = 0
  /\ lastFetchedAssets = <<>>
  /\ htmlContent = <<>>
  /\ isLoading = TRUE
  /\ error = ""
  /\ isOffline = FALSE
  /\ retryTimers = 0
  /\ remote = <<AssetA, AssetB>>
  /\ edits = 0
  /\ audit = [c \in Cycles |-> NoAudit]
  /\ lastFetcher = 0
  /\ unmounted = FALSE
  /\ restarting = FALSE

InitSync ==
  /\ SyncStart
  /\ \/ files = {} /\ manifest = NoManifest /\ goodManifest = <<>>
     \/ /\ files = {1}
        /\ manifest = ManifestFile("manifest", PrevRunLocal)
        /\ goodManifest = PrevRunLocal
  /\ nextFile = 2

NextSync ==
  \/ Mount
  \/ RefreshTick
  \/ RetryFire
  \/ \E c \in Cycles, b \in BOOLEAN : Probe(c, b)
  \/ \E c \in Cycles : OfflineLoad(c)
  \/ \E c \in Cycles, ok \in BOOLEAN : Fetch(c, ok)
  \/ \E c \in Cycles : ClearCache(c)
  \/ \E c \in Cycles, ok \in BOOLEAN : DownloadDone(c, ok)
  \/ \E c \in Cycles : SaveAndHandoff(c)
  \/ \E p \in Payloads : RemoteEdit(p)
  \/ RestartSignal
  \/ Unmount

(***************************************************************************)
(* Part II - the rotation script (AssetDownloader.ts, createHTMLWithData)  *)
(***************************************************************************)
ItemTypes == {"web", "image", "video"}

\* the non-empty lists of at most MaxItems item types
RotLists == UNION {[1..n -> ItemTypes] : n \in 1..MaxItems}

\* the duration of the LocalAsset behind an item of the page: the list is
\* made of AssetB (web), AssetA (image) and AssetC (video)
ItemDuration(type) ==
  IF type = "web" THEN WebLocal(AssetB).duration
  ELSE IF type = "image" THEN FileLocal(AssetA, 1).duration
  ELSE FileLocal(AssetC, 2).duration

\* Math.max(duration * 1000, 1000); Math.max with NaN is NaN, and
\* setTimeout takes a NaN delay as 0
TimeoutDuration(duration) ==
  IF duration = NaN THEN 0
  ELSE IF duration * 1000 > 1000 THEN duration * 1000 ELSE 1000

\* function scheduleNext: a new timer; the one rotationTimeout referred to
\* stays pending with no variable referring to it
ScheduleNext(duration) ==
  /\ rotationTimeout' = TRUE
  /\ armedMs' = TimeoutDuration(duration)
  /\ orphanTimers' = IF rotationTimeout THEN orphanTimers + 1 ELSE orphanTimers

CanScheduleNext == rotationTimeout => orphanTimers < MaxPending

\* function skipToNext
SkipToNext ==
  /\ skipTimers' = skipTimers + 1
  /\ failSignals' = IF failSignals < MaxPending THEN failSignals + 1 ELSE failSignals

CanSkipToNext == skipTimers < MaxPending

\* (variant used to test C6) rotateToNext advancing by two
RotateToNextTwice ==
  IF isTransitioning
  THEN UNCHANGED <<currentIndex, showTimers>>
  ELSE /\ currentIndex' = (currentIndex + 2) % Len(contentList)
       /\ showTimers' = showTimers + 1

\* (variant used to test C24) rotateToNext without its isTransitioning guard
RotateToNextUnguarded ==
  /\ currentIndex' = (currentIndex + 1) % Len(contentList)
  /\ showTimers' = showTimers + 1

\* function rotateToNext
RotateToNext ==
  IF isTransitioning
  THEN UNCHANGED <<currentIndex, showTimers>>
  ELSE /\ currentIndex' = (currentIndex + 1) % Len(contentList)
       /\ showTimers' = showTimers + 1

CanRotateToNext == isTransitioning \/ showTimers < MaxPending

\* function showContent up to its setTimeout: called by the script's last
\* lines and by the timer of rotateToNext
ShowContent ==
  /\ showTimers > 0
  /\ showTimers' = showTimers - 1
  /\ IF Len(contentList) = 0 \/ isTransitioning
     THEN UNCHANGED <<isTransitioning, rotationTimeout, armedMs, webContentLoadTimeout,
                      videoLoadTimeout, visible, transTimer>>
     ELSE /\ isTransitioning' = TRUE
          /\ rotationTimeout' = FALSE
          /\ armedMs' = 0
          \* hideAllContent
          /\ webContentLoadTimeout' = FALSE
          /\ videoLoadTimeout' = FALSE
          /\ visible' = "none"
          /\ transTimer' = TRUE
  /\ UNCHANGED <<contentList, currentIndex, orphanTimers, skipTimers, frameHandler,
                 imagePending, videoHandler, playPending, loadedIndex, prevLoaded, reloads,
                 failSignals>>
  /\ UNCHANGED notRot

\* the setTimeout(..., 100) callback of showContent: the handlers of the
\* item's branch are installed and the load is started; `throws` is the
\* catch block around the assignment of frame.src / video.src. A load timer
\* armed by a callback that throws is left out: the showContent that the
\* skip leads to clears it 300 ms later, long before its 5 or 10 s.
TransCallback(throws) ==
  LET type == contentList[currentIndex + 1] IN
  /\ transTimer
  /\ transTimer' = FALSE
  /\ isTransitioning' = FALSE
  /\ prevLoaded' = loadedIndex
  /\ loadedIndex' = currentIndex
  /\ throws => (type # "image" /\ CanSkipToNext)
  /\ type = "image" => imagePending < MaxPending
  /\ IF type = "web"
     THEN /\ frameHandler' = IF throws THEN "none" ELSE "armed"
          /\ webContentLoadTimeout' = ~throws
          /\ UNCHANGED <<imagePending, videoHandler, videoLoadTimeout>>
     ELSE IF type = "image"
     THEN /\ imagePending' = imagePending + 1
          /\ UNCHANGED <<frameHandler, webContentLoadTimeout, videoHandler,
                         videoLoadTimeout>>
     ELSE /\ videoHandler' = "armed"
          /\ videoLoadTimeout' = ~throws
          /\ UNCHANGED <<frameHandler, webContentLoadTimeout, imagePending>>
  /\ skipTimers' = IF throws THEN skipTimers + 1 ELSE skipTimers
  /\ failSignals' = IF throws THEN 1 ELSE 0
  /\ UNCHANGED <<contentList, currentIndex, rotationTimeout, armedMs, orphanTimers, showTimers,
                 playPending, visible, reloads>>
  /\ UNCHANGED notRot

\* frame.onload
WebLoaded ==
  /\ frameHandler = "armed"
  /\ CanScheduleNext
  /\ frameHandler' = "none"
  /\ webContentLoadTimeout' = FALSE
  /\ visible' = "web"
  /\ ScheduleNext(ItemDuration("web"))
  /\ UNCHANGED <<contentList, currentIndex, isTransitioning, showTimers, transTimer,
                 skipTimers, videoLoadTimeout, imagePending, videoHandler, playPending,
                 loadedIndex, prevLoaded, reloads,
                 failSignals>>
  /\ UNCHANGED notRot

\* frame.onerror
WebError ==
  /\ frameHandler = "armed"
  /\ CanSkipToNext
  /\ frameHandler' = "none"
  /\ SkipToNext
  /\ UNCHANGED <<contentList, currentIndex, isTransitioning, rotationTimeout, armedMs,
                 orphanTimers, showTimers, transTimer, webContentLoadTimeout,
                 videoLoadTimeout, imagePending, videoHandler, playPending, visible,
                 loadedIndex, prevLoaded, reloads>>
  /\ UNCHANGED notRot

\* the 10 s timer of the web branch
WebTimeout ==
  /\ webContentLoadTimeout
  /\ webContentLoadTimeout' = FALSE
  /\ IF frameHandler = "armed"
     THEN /\ CanScheduleNext
          /\ frameHandler' = "none"
          /\ visible' = "web"
          /\ ScheduleNext(ItemDuration("web"))
     ELSE UNCHANGED <<frameHandler, visible, rotationTimeout, armedMs, orphanTimers>>
  /\ UNCHANGED <<contentList, currentIndex, isTransitioning, showTimers, transTimer,
                 skipTimers, videoLoadTimeout, imagePending, videoHandler, playPending,
                 loadedIndex, prevLoaded, reloads,
                 failSignals>>
  /\ UNCHANGED notRot

\* testImg.onload
ImageLoaded ==
  /\ imagePending > 0
  /\ CanScheduleNext
  /\ imagePending' = imagePending - 1
  /\ visible' = "image"
  /\ ScheduleNext(ItemDuration("image"))
  /\ UNCHANGED <<contentList, currentIndex, isTransitioning, showTimers, transTimer,
                 skipTimers, webContentLoadTimeout, videoLoadTimeout, frameHandler,
                 videoHandler, playPending, loadedIndex, prevLoaded, reloads,
                 failSignals>>
  /\ UNCHANGED notRot

\* testImg.onerror
ImageError ==
  /\ imagePending > 0
  /\ CanSkipToNext
  /\ imagePending' = imagePending - 1
  /\ SkipToNext
  /\ UNCHANGED <<contentList, currentIndex, isTransitioning, rotationTimeout, armedMs,
                 orphanTimers, showTimers, transTimer, webContentLoadTimeout,
                 videoLoadTimeout, frameHandler, videoHandler, playPending, visible,
                 loadedIndex, prevLoaded, reloads>>
  /\ UNCHANGED notRot

\* video.oncanplay / video.onloadeddata: handleVideoReady up to video.play()
VideoReady ==
  /\ videoHandler = "armed"
  /\ playPending < MaxPending
  /\ videoHandler' = "none"
  /\ videoLoadTimeout' = FALSE
  /\ playPending' = playPending + 1
  /\ UNCHANGED <<contentList, currentIndex, isTransitioning, rotationTimeout, armedMs,
                 orphanTimers, showTimers, transTimer, skipTimers, webContentLoadTimeout,
                 frameHandler, imagePending, visible, loadedIndex, prevLoaded, reloads,
                 failSignals>>
  /\ UNCHANGED notRot

\* video.play() resolved
VideoPlaying ==
  /\ playPending > 0
  /\ CanScheduleNext
  /\ playPending' = playPending - 1
  /\ visible' = "video"
  /\ ScheduleNext(ItemDuration("video"))
  /\ UNCHANGED <<contentList, currentIndex, isTransitioning, showTimers, transTimer,
                 skipTimers, webContentLoadTimeout, videoLoadTimeout, frameHandler,
                 imagePending, videoHandler, loadedIndex, prevLoaded, reloads,
                 failSignals>>
  /\ UNCHANGED notRot

\* video.play() rejected
VideoPlayFailed ==
  /\ playPending > 0
  /\ CanSkipToNext
  /\ playPending' = playPending - 1
  /\ SkipToNext
  /\ UNCHANGED <<contentList, currentIndex, isTransitioning, rotationTimeout, armedMs,
                 orphanTimers, showTimers, transTimer, webContentLoadTimeout,
                 videoLoadTimeout, frameHandler, imagePending, videoHandler, visible,
                 loadedIndex, prevLoaded, reloads>>
  /\ UNCHANGED notRot

\* video.onerror
VideoError ==
  /\ videoHandler = "armed"
  /\ CanSkipToNext
  /\ videoHandler' = "none"
  /\ SkipToNext
  /\ UNCHANGED <<contentList, currentIndex, isTransitioning, rotationTimeout, armedMs,
                 orphanTimers, showTimers, transTimer, webContentLoadTimeout,
                 videoLoadTimeout, frameHandler, imagePending, playPending, visible,
                 loadedIndex, prevLoaded, reloads>>
  /\ UNCHANGED notRot

\* the 5 s timer of the video branch
VideoTimeout ==
  /\ videoLoadTimeout
  /\ videoLoadTimeout' = FALSE
  /\ IF videoHandler = "armed"
     THEN /\ CanSkipToNext
          /\ videoHandler' = "none"
          /\ SkipToNext
     ELSE UNCHANGED <<videoHandler, skipTimers, failSignals>>
  /\ UNCHANGED <<contentList, currentIndex, isTransitioning, rotationTimeout, armedMs,
                 orphanTimers, showTimers, transTimer, webContentLoadTimeout,
                 frameHandler, imagePending, playPending, visible, loadedIndex,
                 prevLoaded, reloads>>
  /\ UNCHANGED notRot

\* the timer of scheduleNext that rotationTimeout refers to
RotationTimer ==
  /\ rotationTimeout
  /\ CanRotateToNext
  /\ rotationTimeout' = FALSE
  /\ armedMs' = 0
  /\ RotateToNext
  /\ UNCHANGED <<contentList, isTransitioning, orphanTimers, transTimer, skipTimers,
                 webContentLoadTimeout, videoLoadTimeout, frameHandler, imagePending,
                 videoHandler, playPending, visible, loadedIndex, prevLoaded, reloads,
                 failSignals>>
  /\ UNCHANGED notRot

\* a timer of scheduleNext that no variable refers to
OrphanTimer ==
  /\ orphanTimers > 0
  /\ CanRotateToNext
  /\ orphanTimers' = orphanTimers - 1
  /\ RotateToNext
  /\ UNCHANGED <<contentList, isTransitioning, rotationTimeout, armedMs, transTimer, skipTimers,
                 webContentLoadTimeout, videoLoadTimeout, frameHandler, imagePending,
                 videoHandler, playPending, visible, loadedIndex, prevLoaded, reloads,
                 failSignals>>
  /\ UNCHANGED notRot

\* the timer of skipToNext
SkipTimer ==
  /\ skipTimers > 0
  /\ CanRotateToNext
  /\ skipTimers' = skipTimers - 1
  /\ RotateToNext
  /\ UNCHANGED <<contentList, isTransitioning, rotationTimeout, armedMs, orphanTimers, transTimer,
                 webContentLoadTimeout, videoLoadTimeout, frameHandler, imagePending,
                 videoHandler, playPending, visible, loadedIndex, prevLoaded, reloads,
                 failSignals>>
  /\ UNCHANGED notRot

\* the script's variables as declared, and its last lines' call of
\* showContent() (held as a due showContent timer)
ScriptState(list) ==
  [contentList |-> list, currentIndex |-> 0, isTransitioning |-> FALSE,
   rotationTimeout |-> FALSE, armedMs |-> 0, orphanTimers |-> 0,
   showTimers |-> (IF Len(list) > 0 THEN 1 ELSE 0), transTimer |-> FALSE,
   skipTimers |-> 0, webContentLoadTimeout |-> FALSE, videoLoadTimeout |-> FALSE,
   frameHandler |-> "none", imagePending |-> 0, videoHandler |-> "none",
   playPending |-> 0, visible |-> "none", loadedIndex |-> -1, prevLoaded |-> -1,
   failSignals |-> 0]

ScriptStart(list) ==
  LET s == ScriptState(list) IN
  /\ contentList = s.contentList
  /\ currentIndex = s.currentIndex
  /\ isTransitioning = s.isTransitioning
  /\ rotationTimeout = s.rotationTimeout
  /\ armedMs = s.armedMs
  /\ orphanTimers = s.orphanTimers
  /\ showTimers = s.showTimers
  /\ transTimer = s.transTimer
  /\ skipTimers = s.skipTimers
  /\ webContentLoadTimeout = s.webContentLoadTimeout
  /\ videoLoadTimeout = s.videoLoadTimeout
  /\ frameHandler = s.frameHandler
  /\ imagePending = s.imagePending
  /\ videoHandler = s.videoHandler
  /\ playPending = s.playPending
  /\ visible = s.visible
  /\ loadedIndex = s.loadedIndex
  /\ prevLoaded = s.prevLoaded
  /\ failSignals = s.failSignals

\* setHtmlContent with another page: the WebView loads the new source, the
\* old page with its timers and handlers is gone and the script starts anew
Reload(list) ==
  /\ reloads < MaxReloads
  /\ list # contentList
  /\ reloads' = reloads + 1
  /\ LET s == ScriptState(list) IN
     /\ contentList' = s.contentList
     /\ currentIndex' = s.currentIndex
     /\ isTransitioning' = s.isTransitioning
     /\ rotationTimeout' = s.rotationTimeout
     /\ armedMs' = s.armedMs
     /\ orphanTimers' = s.orphanTimers
     /\ showTimers' = s.showTimers
     /\ transTimer' = s.transTimer
     /\ skipTimers' = s.skipTimers
     /\ webContentLoadTimeout' = s.webContentLoadTimeout
     /\ videoLoadTimeout' = s.videoLoadTimeout
     /\ frameHandler' = s.frameHandler
     /\ imagePending' = s.imagePending
     /\ videoHandler' = s.videoHandler
     /\ playPending' = s.playPending
     /\ visible' = s.visible
     /\ loadedIndex' = s.loadedIndex
     /\ prevLoaded' = s.prevLoaded
     /\ failSignals' = s.failSignals
  /\ UNCHANGED notRot

NoTimer == [set |-> FALSE, idx |-> 0, n |-> 0, gen |-> 0]

Timer(idx, n, gen) == [set |-> TRUE, idx |-> idx, n |-> n, gen |-> gen]

\* the component as constructed, with the mount effect's initializeApp at
\* its first await
AppStart(pc) ==
  /\ assets = <<>>
  /\ currentAssetIndex = 0
  /\ isPlaying = FALSE
  /\ transitioningRef = FALSE
  /\ playbackTimer = NoTimer
  /\ retryTimer = FALSE
  /\ errorSkipTimers = {}
  /\ transitionTimers = {}
  /\ startTimers = 0
  /\ lastApiResponseRef = <<>>
  /\ initPc = pc
  /\ check = [pc |-> "idle", n |-> 0]
  /\ appError = ""
  /\ retryCount = 0
  /\ listGen = 0
  /\ awaitingRestart = FALSE
  /\ observed = <<>>

\* the player not started
NoApp == AppStart("off")

\* the page not loaded: nothing of the script exists
NoPage == ScriptStart(<<>>) /\ reloads = 0

\* Part I taken alone
Init == InitSync /\ NoSelection /\ NoPathCalls /\ NoServiceCalls /\ NoPage /\ NoApp

Next == NextSync

Spec == Init /\ [][Next]_vars

\* Part II taken alone: the page has been loaded with some list
IdleSync ==
  /\ InitSync
  /\ NoSelection
  /\ NoPathCalls
  /\ NoServiceCalls
  /\ files = {}

InitRot ==
  /\ IdleSync
  /\ NoApp
  /\ reloads = 0
  /\ \E list \in RotLists : ScriptStart(list)

\* the display surface reports every load, nothing fails
NextRotOK ==
  \/ ShowContent
  \/ TransCallback(FALSE)
  \/ WebLoaded
  \/ WebTimeout
  \/ ImageLoaded
  \/ VideoReady
  \/ VideoPlaying
  \/ RotationTimer

NextRot ==
  \/ ShowContent
  \/ \E throws \in BOOLEAN : TransCallback(throws)
  \/ WebLoaded
  \/ WebError
  \/ WebTimeout
  \/ ImageLoaded
  \/ ImageError
  \/ VideoReady
  \/ VideoPlaying
  \/ VideoPlayFailed
  \/ VideoError
  \/ VideoTimeout
  \/ RotationTimer
  \/ OrphanTimer
  \/ SkipTimer
  \/ \E list \in RotLists : Reload(list)

SpecRot == InitRot /\ [][NextRot]_vars

SpecRotOK == InitRot /\ [][NextRotOK]_vars

\* timers fire and the surface answers: every step that can be taken is
\* taken eventually
FairRotOK == SpecRotOK /\ WF_vars(NextRotOK)

(***************************************************************************)
(* Part III - the legacy rotation script (unnamed/part_000). It has the    *)
(* variables contentList, currentIndex and rotationTimeout of Part II;     *)
(* showTimers holds its setTimeout(showContent, 100) timers, imagePending  *)
(* and videoHandler the loads that img.onerror / video.onerror watch.      *)
(***************************************************************************)
\* what the legacy script does not have
legacyUnused ==
  <<isTransitioning, orphanTimers, transTimer, skipTimers, webContentLoadTimeout,
    videoLoadTimeout, frameHandler, reloads>>

\* function showContent of the legacy script; fromRotation tells which of
\* its timers called it
LegacyShowContent(fromRotation) ==
  LET type == contentList[currentIndex + 1] IN
  /\ Len(contentList) > 0
  /\ IF fromRotation
     THEN rotationTimeout /\ UNCHANGED showTimers
     ELSE showTimers > 0 /\ showTimers' = showTimers - 1
  /\ visible' = type
  /\ imagePending' = IF type = "image" THEN 1 ELSE imagePending
  /\ videoHandler' = IF type = "video" THEN "armed" ELSE videoHandler
  /\ prevLoaded' = loadedIndex
  /\ loadedIndex' = currentIndex
  /\ failSignals' = 0
  /\ currentIndex' = (currentIndex + 1) % Len(contentList)
  /\ rotationTimeout' = TRUE
  \* currentItem.duration * 1000, with no lower bound
  /\ armedMs' = IF ItemDuration(type) = NaN THEN 0 ELSE ItemDuration(type) * 1000
  /\ UNCHANGED <<contentList, playPending>>
  /\ UNCHANGED legacyUnused
  /\ UNCHANGED notRot

\* the body shared by img.onerror, video.onerror and the catch of play()
LegacySkip ==
  /\ showTimers < MaxPending
  /\ currentIndex' = (currentIndex + 1) % Len(contentList)
  /\ showTimers' = showTimers + 1
  /\ failSignals' = IF failSignals < MaxPending THEN failSignals + 1 ELSE failSignals

\* img.onerror
LegacyImageError ==
  /\ imagePending > 0
  /\ imagePending' = 0
  /\ LegacySkip
  /\ UNCHANGED <<contentList, rotationTimeout, armedMs, videoHandler, playPending, visible,
                 loadedIndex, prevLoaded>>
  /\ UNCHANGED legacyUnused
  /\ UNCHANGED notRot

\* the image has loaded: no handler is installed for it
LegacyImageLoaded ==
  /\ imagePending > 0
  /\ imagePending' = 0
  /\ UNCHANGED <<contentList, currentIndex, rotationTimeout, armedMs, showTimers, videoHandler,
                 playPending, visible, loadedIndex, prevLoaded, failSignals>>
  /\ UNCHANGED legacyUnused
  /\ UNCHANGED notRot

\* video.onerror
LegacyVideoError ==
  /\ videoHandler = "armed"
  /\ videoHandler' = "none"
  /\ LegacySkip
  /\ UNCHANGED <<contentList, rotationTimeout, armedMs, imagePending, playPending, visible,
                 loadedIndex, prevLoaded>>
  /\ UNCHANGED legacyUnused
  /\ UNCHANGED notRot

\* video.oncanplaythrough: video.play() is called
LegacyCanPlayThrough ==
  /\ videoHandler = "armed"
  /\ playPending < MaxPending
  /\ videoHandler' = "none"
  /\ playPending' = playPending + 1
  /\ UNCHANGED <<contentList, currentIndex, rotationTimeout, armedMs, showTimers, imagePending,
                 visible, loadedIndex, prevLoaded, failSignals>>
  /\ UNCHANGED legacyUnused
  /\ UNCHANGED notRot

\* video.play() settled: resolved, or rejected (the catch skips)
LegacyPlaySettled(rejected) ==
  /\ playPending > 0
  /\ playPending' = playPending - 1
  /\ IF rejected
     THEN LegacySkip
     ELSE UNCHANGED <<currentIndex, showTimers, failSignals>>
  /\ UNCHANGED <<contentList, rotationTimeout, armedMs, imagePending, videoHandler, visible,
                 loadedIndex, prevLoaded>>
  /\ UNCHANGED legacyUnused
  /\ UNCHANGED notRot

NextLegacy ==
  \/ \E fromRotation \in BOOLEAN : LegacyShowContent(fromRotation)
  \/ LegacyImageError
  \/ LegacyImageLoaded
  \/ LegacyVideoError
  \/ LegacyCanPlayThrough
  \/ \E rejected \in BOOLEAN : LegacyPlaySettled(rejected)

\* the legacy script starts like the current one: its variables as
\* declared and a call of showContent()
SpecLegacy == InitRot /\ [][NextLegacy]_vars

(***************************************************************************)
(* Part IV - the single-component player (unnamed/part_003, SignageApp).   *)
(* The server's playlist is `remote` of Part I. A timer callback runs the  *)
(* switchToNextAsset of the render that created it: it carries that        *)
(* render's currentAssetIndex and assets.length.                           *)
(***************************************************************************)
MIN_ASSET_TIME == 5

MAX_RETRIES == 5

Max(a, b) == IF a > b THEN a ELSE b

\* the map of fetchPlaylist: what the player keeps of an asset
Essential(asset) ==
  [filepath |-> asset.filepath, filetype |-> ToLower(asset.filetype),
   time |-> Max(ParseInt(asset.time), MIN_ASSET_TIME), name |-> asset.name]

\* fetchPlaylist's essentialAssets for the playlist `playlist`
EssentialAssets(playlist) ==
  LET kept == ResolvePlaylist(playlist)
  IN [i \in 1..Len(kept) |-> Essential(kept[i])]

\* clearAllTimers (the countdown is display only)
ClearAllTimers ==
  /\ playbackTimer' = NoTimer
  /\ retryTimer' = FALSE

\* the playback effect after a render in which currentAssetIndex, isPlaying
\* or assets changed: startAssetPlayback(currentAssetIndex), which clears
\* the timers and sets the playback timer; `cleared` tells whether the
\* handler has called clearAllTimers itself
PlaybackEffect(cleared) ==
  IF /\ <<currentAssetIndex', isPlaying', assets'>> # <<currentAssetIndex, isPlaying, assets>>
     /\ isPlaying'
     /\ currentAssetIndex' < Len(assets')
  THEN /\ playbackTimer' = Timer(currentAssetIndex', Len(assets'), listGen')
       /\ retryTimer' = FALSE
       /\ awaitingRestart' = FALSE
  ELSE /\ IF cleared THEN ClearAllTimers ELSE UNCHANGED <<playbackTimer, retryTimer>>
       /\ UNCHANGED awaitingRestart

\* function switchToNextAsset of the render with index idx and n assets
SwitchToNextAsset(idx, n) ==
  IF transitioningRef \/ n = 0
  THEN UNCHANGED <<transitioningRef, currentAssetIndex, isPlaying, transitionTimers,
                   retryTimer, awaitingRestart>>
  ELSE /\ transitioningRef' = TRUE
       /\ currentAssetIndex' = (idx + 1) % n
       /\ isPlaying' = FALSE
       /\ transitionTimers' = transitionTimers \cup {listGen}
       /\ retryTimer' = FALSE
       /\ UNCHANGED awaitingRestart

\* the playback timer of startAssetPlayback fires
PlaybackTimerFires ==
  /\ playbackTimer.set
  /\ playbackTimer' = NoTimer
  /\ SwitchToNextAsset(playbackTimer.idx, playbackTimer.n)
  /\ UNCHANGED <<assets, errorSkipTimers, startTimers, lastApiResponseRef, initPc, check,
                 appError, listGen, observed>>
  /\ UNCHANGED retryCount
  /\ UNCHANGED notApp

\* the setTimeout(..., 100) of switchToNextAsset fires
TransitionTimerFires(g) ==
  /\ g \in transitionTimers
  /\ transitionTimers' = transitionTimers \ {g}
  /\ transitioningRef' = FALSE
  /\ isPlaying' = TRUE
  /\ UNCHANGED <<assets, currentAssetIndex, listGen>>
  /\ PlaybackEffect(FALSE)
  /\ UNCHANGED <<errorSkipTimers, startTimers, lastApiResponseRef, initPc, check, appError,
                 observed>>
  /\ UNCHANGED retryCount
  /\ UNCHANGED notApp

\* AssetRenderer's handleError / handleImageError after the fallback has
\* failed too: setTimeout(switchToNextAsset, 1000)
RenderError ==
  /\ appError = ""
  /\ initPc = "ready"
  /\ currentAssetIndex < Len(assets)
  /\ Cardinality(errorSkipTimers) < MaxPending
  /\ errorSkipTimers' = errorSkipTimers \cup {Timer(currentAssetIndex, Len(assets), listGen)}
  /\ UNCHANGED <<assets, currentAssetIndex, isPlaying, transitioningRef, playbackTimer,
                 retryTimer, transitionTimers, startTimers, lastApiResponseRef, initPc,
                 check, appError, listGen, awaitingRestart, observed>>
  /\ UNCHANGED retryCount
  /\ UNCHANGED notApp

\* a timer of handleError / handleImageError fires
ErrorSkipTimerFires(t) ==
  /\ t \in errorSkipTimers
  /\ errorSkipTimers' = errorSkipTimers \ {t}
  /\ IF transitioningRef \/ t.n = 0
     THEN UNCHANGED playbackTimer
     ELSE playbackTimer' = NoTimer
  /\ SwitchToNextAsset(t.idx, t.n)
  /\ UNCHANGED <<assets, startTimers, lastApiResponseRef, initPc, check, appError, listGen,
                 observed>>
  /\ UNCHANGED retryCount
  /\ UNCHANGED notApp

\* a setTimeout(() => setIsPlaying(true), 500) fires
StartTimerFires ==
  /\ startTimers > 0
  /\ startTimers' = startTimers - 1
  /\ isPlaying' = TRUE
  /\ UNCHANGED <<assets, currentAssetIndex, listGen>>
  /\ PlaybackEffect(FALSE)
  /\ UNCHANGED <<transitioningRef, errorSkipTimers, transitionTimers, lastApiResponseRef,
                 initPc, check, appError, observed>>
  /\ UNCHANGED retryCount
  /\ UNCHANGED notApp

\* scheduleRetry of a render whose retryCount is `seen`, called from the
\* catch of initializeApp after setError
ScheduleRetry(seen) ==
  IF seen >= MAX_RETRIES
  THEN /\ appError' = "Maximum retry attempts exceeded"
       /\ UNCHANGED retryTimer
  ELSE /\ appError' = "Initialization error"
       /\ retryTimer' = TRUE

\* the retryCount that the scheduleRetry reached from the mount effect sees:
\* the effect (dependencies []) and the retry timers call the initializeApp
\* of the first render, which holds the scheduleRetry of the first render
RetryCountSeen == 0

\* initializeApp after fetchPlaylist has answered (ok) or thrown; it was
\* called with no assets loaded, so a playlist that resolves is taken over
InitFetched(ok) ==
  LET essential == EssentialAssets(remote) IN
  /\ initPc = "fetch"
  /\ IF ok /\ Len(essential) > 0
     THEN /\ lastApiResponseRef' = remote
          /\ assets' = essential
          /\ currentAssetIndex' = 0
          /\ listGen' = listGen + 1
          /\ initPc' = "precache"
          /\ UNCHANGED <<appError, retryTimer>>
     ELSE /\ lastApiResponseRef' = IF ok THEN remote ELSE lastApiResponseRef
          /\ ScheduleRetry(RetryCountSeen)
          /\ initPc' = "failed"
          /\ UNCHANGED <<assets, currentAssetIndex, listGen>>
  /\ UNCHANGED <<isPlaying, transitioningRef, playbackTimer, errorSkipTimers,
                 transitionTimers, startTimers, check, retryCount, awaitingRestart,
                 observed>>
  /\ UNCHANGED notApp

\* initializeApp after preCacheAllAssets
InitPrecached ==
  /\ initPc = "precache"
  /\ initPc' = "ready"
  /\ startTimers' = startTimers + 1
  /\ retryCount' = 0
  /\ UNCHANGED <<assets, currentAssetIndex, isPlaying, transitioningRef, playbackTimer,
                 retryTimer, errorSkipTimers, transitionTimers, lastApiResponseRef, check,
                 appError, listGen, awaitingRestart, observed>>
  /\ UNCHANGED notApp

\* the timer of scheduleRetry fires: initializeApp up to its first await
RetryTimerFires ==
  /\ retryTimer
  /\ retryCount < MaxRetryCount
  /\ retryTimer' = FALSE
  /\ retryCount' = retryCount + 1
  /\ appError' = ""
  /\ isPlaying' = FALSE
  /\ playbackTimer' = NoTimer
  /\ initPc' = "fetch"
  /\ UNCHANGED <<assets, currentAssetIndex, transitioningRef, errorSkipTimers,
                 transitionTimers, startTimers, lastApiResponseRef, check, listGen,
                 awaitingRestart, observed>>
  /\ UNCHANGED notApp

\* the setInterval callback of startPeriodicCheck, up to its await
PeriodicCheck ==
  /\ initPc = "ready"
  /\ Len(assets) > 0
  /\ appError = ""
  /\ check.pc = "idle"
  /\ check' = [pc |-> "fetch", n |-> Len(assets)]
  /\ UNCHANGED <<assets, currentAssetIndex, isPlaying, transitioningRef, playbackTimer,
                 retryTimer, errorSkipTimers, transitionTimers, startTimers,
                 lastApiResponseRef, initPc, appError, retryCount, listGen,
                 awaitingRestart, observed>>
  /\ UNCHANGED notApp

\* the periodic check after fetchPlaylist has answered (ok) or thrown
PeriodicFetched(ok) ==
  LET essential == EssentialAssets(remote)
      hasChanged == lastApiResponseRef # remote
  IN
  /\ check.pc = "fetch"
  /\ lastApiResponseRef' = IF ok THEN remote ELSE lastApiResponseRef
  /\ observed' = IF ok /\ Len(essential) > 0 THEN essential ELSE observed
  /\ IF ok /\ Len(essential) > 0 /\ hasChanged /\ Len(essential) # check.n
     THEN /\ assets' = essential
          /\ currentAssetIndex' = 0
          /\ isPlaying' = FALSE
          /\ ClearAllTimers
          /\ listGen' = listGen + 1
          /\ awaitingRestart' = TRUE
          /\ check' = [check EXCEPT !.pc = "precache"]
     ELSE /\ check' = [check EXCEPT !.pc = "idle"]
          /\ UNCHANGED <<assets, currentAssetIndex, isPlaying, playbackTimer, retryTimer,
                         listGen, awaitingRestart>>
  /\ UNCHANGED <<transitioningRef, errorSkipTimers, transitionTimers, startTimers, initPc,
                 appError, retryCount>>
  /\ UNCHANGED notApp

\* the periodic check after preCacheAllAssets
PeriodicPrecached ==
  /\ check.pc = "precache"
  /\ check' = [check EXCEPT !.pc = "idle"]
  /\ startTimers' = startTimers + 1
  /\ UNCHANGED <<assets, currentAssetIndex, isPlaying, transitioningRef, playbackTimer,
                 retryTimer, errorSkipTimers, transitionTimers, lastApiResponseRef, initPc,
                 appError, retryCount, listGen, awaitingRestart, observed>>
  /\ UNCHANGED notApp

InitApp ==
  /\ IdleSync
  /\ NoPage
  /\ AppStart("fetch")

NextApp ==
  \/ PlaybackTimerFires
  \/ \E g \in 0..(MaxEdits + 1) : TransitionTimerFires(g)
  \/ RenderError
  \/ \E t \in errorSkipTimers : ErrorSkipTimerFires(t)
  \/ StartTimerFires
  \/ \E ok \in BOOLEAN : InitFetched(ok)
  \/ InitPrecached
  \/ RetryTimerFires
  \/ PeriodicCheck
  \/ \E ok \in BOOLEAN : PeriodicFetched(ok)
  \/ PeriodicPrecached
  \/ \E p \in Payloads : RemoteEdit(p)

SpecApp == InitApp /\ [][NextApp]_vars

(***************************************************************************)
(* Part V - playlist selection (Api.ts: isPlaylistActive, fetchPlaylist),   *)
(* taken alone: a response and an instant are drawn, fetchPlaylist chooses. *)
(* A date is the number of its calendar day, an instant `now` is a day, the *)
(* short name of its weekday and its time of day as the string HH:MM:SS.    *)
(* Instants are counted in half days: 2d is midnight at the start of day d *)
(* and 2d + 1 stands for every later instant of day d. An absent or null   *)
(* field of a playlist is 0 (dates) or <<>> (weekdays, times).              *)
(***************************************************************************)
MaxPlaylists == 3

MkPlaylist(nm, def, sd, ed, wd, st, et) ==
  [name |-> nm, is_default |-> def, startdate |-> sd, enddate |-> ed,
   weekdays |-> wd, starttime |-> st, endtime |-> et]

Midnight == <<"0", "0", ":", "0", "0", ":", "0", "0">>
Nine == <<"0", "9", ":", "0", "0", ":", "0", "0">>
Noon == <<"1", "2", ":", "0", "0", ":", "0", "0">>
Seventeen == <<"1", "7", ":", "0", "0", ":", "0", "0">>
Evening == <<"1", "8", ":", "3", "0", ":", "0", "0">>

\* the order of the characters of a time string: the digits, then the colon
CharCode(ch) == IF IsDigit(ch) THEN DigitVal(ch) ELSE 10

RECURSIVE StrLess(_, _)
\* a < b on JavaScript strings
StrLess(a, b) ==
  IF b = <<>> THEN FALSE
  ELSE IF a = <<>> THEN TRUE
  ELSE IF CharCode(Head(a)) # CharCode(Head(b)) THEN CharCode(Head(a)) < CharCode(Head(b))
  ELSE StrLess(Tail(a), Tail(b))

\* now.getTime() and new Date(date).getTime()
GetTime(t) == 2 * t.day + (IF t.time = Midnight THEN 0 ELSE 1)
DateTime(d) == 2 * d

dayMap ==
  ("Mon" :> "Monday") @@ ("Tue" :> "Tuesday") @@ ("Wed" :> "Wednesday") @@
  ("Thu" :> "Thursday") @@ ("Fri" :> "Friday") @@ ("Sat" :> "Saturday") @@
  ("Sun" :> "Sunday")

\* scheduledDays.some(...): currentDay is the short name, the long name is
\* compared with dayMap[day], which is undefined for a day that is no key
IsScheduledDay(scheduledDays, t) ==
  \E i \in 1..Len(scheduledDays) :
    \/ scheduledDays[i] = t.weekday
    \/ /\ scheduledDays[i] \in DOMAIN dayMap
       /\ dayMap[scheduledDays[i]] = dayMap[t.weekday]

IsPlaylistActive(playlist, t) ==
  IF playlist.is_default THEN TRUE
  ELSE IF playlist.startdate # 0 /\ GetTime(t) < DateTime(playlist.startdate) THEN FALSE
  ELSE IF playlist.enddate # 0 /\ GetTime(t) > DateTime(playlist.enddate) THEN FALSE
  ELSE IF playlist.weekdays # <<>> /\ ~IsScheduledDay(playlist.weekdays, t) THEN FALSE
  ELSE IF playlist.starttime # <<>> /\ StrLess(t.time, playlist.starttime) THEN FALSE
  ELSE IF playlist.endtime # <<>> /\ StrLess(playlist.endtime, t.time) THEN FALSE
  ELSE TRUE

\* the index Array.prototype.find stops at, 0 when it returns undefined
FindScheduled(pls, t) ==
  LET hits == {i \in 1..Len(pls) : ~pls[i].is_default /\ IsPlaylistActive(pls[i], t)}
  IN IF hits = {} THEN 0 ELSE CHOOSE i \in hits : \A j \in hits : i <= j

FindDefault(pls) ==
  LET hits == {i \in 1..Len(pls) : pls[i].is_default}
  IN IF hits = {} THEN 0 ELSE CHOOSE i \in hits : \A j \in hits : i <= j

\* (variant used to test C18) the last active scheduled playlist wins
SelectLastActive(pls, t) ==
  LET hits == {i \in 1..Len(pls) : ~pls[i].is_default /\ IsPlaylistActive(pls[i], t)}
  IN IF hits # {} THEN CHOOSE i \in hits : \A j \in hits : i >= j
     ELSE IF FindDefault(pls) # 0 THEN FindDefault(pls)
     ELSE 1

\* (variant used to test C19) the fallback is the first playlist
SelectFirstOnFallback(pls, t) ==
  IF FindScheduled(pls, t) # 0 THEN FindScheduled(pls, t)
  ELSE 1

\* the index of activePlaylist in data.playlists
SelectPlaylist(pls, t) ==
  IF FindScheduled(pls, t) # 0 THEN FindScheduled(pls, t)
  ELSE IF FindDefault(pls) # 0 THEN FindDefault(pls)
  ELSE 1

\* the playlists a response can hold
PlaylistKinds ==
  { MkPlaylist("default", TRUE, 0, 0, <<>>, <<>>, <<>>),
    MkPlaylist("always", FALSE, 0, 0, <<>>, <<>>, <<>>),
    MkPlaylist("mondays", FALSE, 0, 0, <<"Mon">>, <<>>, <<>>),
    MkPlaylist("office", FALSE, 0, 0, <<>>, Nine, Seventeen),
    MkPlaylist("dated", FALSE, 2, 3, <<>>, <<>>, <<>>),
    MkPlaylist("from", FALSE, 3, 0, <<>>, <<>>, <<>>),
    MkPlaylist("until", FALSE, 0, 2, <<>>, <<>>, <<>>),
    MkPlaylist("sundays", FALSE, 0, 0, <<"Sat", "Sunday">>, <<>>, <<>>) }

RECURSIVE SeqsUpTo(_, _)
SeqsUpTo(S, n) ==
  IF n = 0 THEN {<<>>}
  ELSE LET shorter == SeqsUpTo(S, n - 1)
       IN shorter \cup {Append(q, x) : q \in shorter, x \in S}

Instants ==
  [day : 1..4, weekday : {"Mon", "Sun"}, time : {Midnight, Noon, Evening}]

\* fetchPlaylist from the parsed response to the choice of activePlaylist
ChoosePlaylist ==
  /\ activePlaylist = 0
  /\ activePlaylist' = IF Len(playlists) = 0 THEN -1 ELSE SelectPlaylist(playlists, now)
  /\ UNCHANGED <<playlists, now, syncVars, rotVars, appVars, envVars, pathVars, svcVars>>

InitSel ==
  /\ InitSync
  /\ NoPathCalls
  /\ NoServiceCalls
  /\ files = {}
  /\ NoPage
  /\ NoApp
  /\ playlists \in SeqsUpTo(PlaylistKinds, MaxPlaylists)
  /\ now \in Instants
  /\ activePlaylist = 0

NextSel == ChoosePlaylist

SpecSel == InitSel /\ [][NextSel]_vars

(***************************************************************************)
(* Characters: a string the code rewrites character by character is the    *)
(* sequence of its characters                                              *)
(***************************************************************************)
LowerLetters ==
  <<"a", "b", "c", "d", "e", "f", "g", "h", "i", "j", "k", "l", "m",
    "n", "o", "p", "q", "r", "s", "t", "u", "v", "w", "x", "y", "z">>

UpperLetters ==
  <<"A", "B", "C", "D", "E", "F", "G", "H", "I", "J", "K", "L", "M",
    "N", "O", "P", "Q", "R", "S", "T", "U", "V", "W", "X", "Y", "Z">>

\* the class [a-zA-Z0-9] of the regular expressions
IsAlphaNum(ch) ==
  \/ \E k \in 1..26 : LowerLetters[k] = ch \/ UpperLetters[k] = ch
  \/ IsDigit(ch)

\* String.prototype.toLowerCase, character by character
LowerChar(ch) ==
  IF \E k \in 1..26 : UpperLetters[k] = ch
  THEN LowerLetters[CHOOSE k \in 1..26 : UpperLetters[k] = ch]
  ELSE ch

ToLowerCase(s) == [k \in 1..Len(s) |-> LowerChar(s[k])]

RECURSIVE DecimalString(_)
\* the decimal digits of a natural number, as `${n}` writes them
DecimalString(n) ==
  IF n < 10 THEN <<Digits[n + 1]>>
  ELSE DecimalString(n \div 10) \o <<Digits[(n % 10) + 1]>>

(***************************************************************************)
(* Part VI - the asset cache of unnamed/part_003: getCacheFilename,         *)
(* getAssetPath, isAssetCached, downloadAndCacheAsset. Here a filepath is   *)
(* the sequence of its characters.                                         *)
(***************************************************************************)
MaxCalls == 2

\* the length urlHash is cut to
HashLength == 50

\* a filepath longer than HashLength that ends in `tail`
LongPath(tail) == [k \in 1..HashLength |-> "m"] \o tail

\* assets of every family of downloadAndCacheAsset, and assets whose
\* filepaths differ in a character that is not a letter or digit, or differ
\* after HashLength characters
PathA == MkAsset(<<"a">>, "png", <<"2">>, <<"1">>, "A")
PathB == MkAsset(<<"b">>, "url", <<"5">>, <<"2">>, "B")
PathC == MkAsset(<<"c">>, "mp4", <<"3">>, <<"2">>, "C")
PathS == MkAsset(<<"s">>, "stream", <<"6">>, <<"3">>, "S")
PathSlash == MkAsset(<<"p", "/", "q">>, "png", <<"2">>, <<"4">>, "P1")
PathQuery == MkAsset(<<"p", "?", "q">>, "png", <<"2">>, <<"5">>, "P2")
PathLong1 == MkAsset(LongPath(<<"1">>), "mp4", <<"3">>, <<"6">>, "L1")
PathLong2 == MkAsset(LongPath(<<"2">>), "mp4", <<"3">>, <<"7">>, "L2")

PathAssets ==
  {PathA, PathB, PathC, PathS, PathSlash, PathQuery, PathLong1, PathLong2}

\* url.replace(/[^a-zA-Z0-9]/g, "_")
ReplaceNonAlphaNum(url) ==
  [k \in 1..Len(url) |-> IF IsAlphaNum(url[k]) THEN url[k] ELSE "_"]

\* s.substring(0, n)
Substring0(s, n) == SubSeq(s, 1, IF Len(s) < n THEN Len(s) ELSE n)

\* getCacheFilename: `${urlHash}.${extension}` (the extension is kept as one
\* element of the sequence)
GetCacheFilename(url, filetype) ==
  LET urlHash == Substring0(ReplaceNonAlphaNum(url), HashLength)
      extension == IF filetype = "url" \/ filetype = "html" THEN "html" ELSE filetype
  IN urlHash \o <<".", extension>>

CacheFilenameOf(a) == GetCacheFilename(a.filepath, a.filetype)

\* the files of CACHE_DIR: the name, and the filepath whose bytes it holds
FileExists(name) == \E f \in cacheDir : f.name = name

ContentOf(name) == (CHOOSE f \in cacheDir : f.name = name).content

DeleteFile(name) == {f \in cacheDir : f.name # name}

WriteFile(name, content) == DeleteFile(name) \cup {[name |-> name, content |-> content]}

\* the types downloadAndCacheAsset passes to FileSystem.downloadAsync, and
\* those it passes to fetch and writeAsStringAsync
DownloadedTypes == {"png", "jpg", "jpeg", "gif", "webp", "mp4", "pdf"}
FetchedTypes == {"html", "url"}

Transferred(a) == ToLower(a.filetype) \in DownloadedTypes \/ a.filetype \in FetchedTypes

\* what getAssetPath resolves to: the file of the cache, or the original URL
NoPath == [kind |-> "none", path |-> <<>>]
LocalPath(a) == [kind |-> "local", path |-> CacheFilenameOf(a)]
OriginalUrl(a) == [kind |-> "remote", path |-> a.filepath]

\* getAssetPath(filepath, filetype) is called (by preCacheAllAssets or by
\* the AssetRenderer effect): up to the await of getInfoAsync. `served` is
\* (history) the filepath whose bytes the file resolved to holds.
GetAssetPath(a) ==
  /\ Len(pathCalls) < MaxCalls
  /\ pathCalls' = Append(pathCalls, [pc |-> "info", asset |-> a, result |-> NoPath,
                                     served |-> <<>>])
  /\ UNCHANGED <<cacheDir, downloadQueue, networkStatus>>
  /\ UNCHANGED <<syncVars, rotVars, appVars, envVars, selVars, svcVars>>

\* isAssetCached has answered; then downloadAndCacheAsset up to its await
CacheChecked(i) ==
  LET a == pathCalls[i].asset IN
  /\ pathCalls[i].pc = "info"
  /\ IF FileExists(CacheFilenameOf(a))
     THEN /\ pathCalls' = [pathCalls EXCEPT ![i].pc = "done", ![i].result = LocalPath(a),
                                            ![i].served = ContentOf(CacheFilenameOf(a))]
          /\ UNCHANGED downloadQueue
     ELSE IF networkStatus /\ a.filepath \notin downloadQueue /\ Transferred(a)
     THEN /\ pathCalls' = [pathCalls EXCEPT ![i].pc = "transfer"]
          /\ downloadQueue' = downloadQueue \cup {a.filepath}
     ELSE /\ pathCalls' = [pathCalls EXCEPT ![i].pc = "done", ![i].result = OriginalUrl(a)]
          /\ UNCHANGED downloadQueue
  /\ UNCHANGED <<cacheDir, networkStatus>>
  /\ UNCHANGED <<syncVars, rotVars, appVars, envVars, selVars, svcVars>>

\* downloadAsync, or fetch and writeAsStringAsync, has answered: the file is
\* written (ok), or the catch block deletes it; finally leaves the queue
TransferDone(i, ok) ==
  LET a == pathCalls[i].asset IN
  /\ pathCalls[i].pc = "transfer"
  /\ downloadQueue' = downloadQueue \ {a.filepath}
  /\ IF ok
     THEN /\ cacheDir' = WriteFile(CacheFilenameOf(a), a.filepath)
          /\ pathCalls' = [pathCalls EXCEPT ![i].pc = "done", ![i].result = LocalPath(a),
                                            ![i].served = a.filepath]
     ELSE /\ cacheDir' = DeleteFile(CacheFilenameOf(a))
          /\ pathCalls' = [pathCalls EXCEPT ![i].pc = "done", ![i].result = OriginalUrl(a)]
  /\ UNCHANGED networkStatus
  /\ UNCHANGED <<syncVars, rotVars, appVars, envVars, selVars, svcVars>>

\* the NetInfo listener: setNetworkStatus(connected)
NetInfoChange ==
  /\ networkStatus' = ~networkStatus
  /\ UNCHANGED <<cacheDir, downloadQueue, pathCalls>>
  /\ UNCHANGED <<syncVars, rotVars, appVars, envVars, selVars, svcVars>>

NextPath ==
  \/ \E a \in PathAssets : GetAssetPath(a)
  \/ \E i \in 1..MaxCalls : i <= Len(pathCalls) /\ CacheChecked(i)
  \/ \E i \in 1..MaxCalls, ok \in BOOLEAN : i <= Len(pathCalls) /\ TransferDone(i, ok)
  \/ NetInfoChange

InitPath == Init /\ files = {}

SpecPath == InitPath /\ [][NextPath]_vars

(***************************************************************************)
(* Part VII - the connectivity probe of SignageDisplay.tsx taken alone:     *)
(* checkInternetConnection(retries), one action per stretch between awaits *)
(***************************************************************************)
\* the largest `retries` a call is made with (the default is 3)
MaxProbeRetries == 5

\* what one HEAD request can come to: a response with a status, a rejected
\* fetch, or the abort of the 5 s timer (which rejects the fetch too)
ProbeStatuses == {200, 399, 400, 503}

ProbeOutcomes ==
  {[kind |-> "response", status |-> st] : st \in ProbeStatuses}
    \cup {[kind |-> "rejected", status |-> 0], [kind |-> "aborted", status |-> 0]}

Min(a, b) == IF a <= b THEN a ELSE b

\* const delay = Math.min(1000 * Math.pow(2, i), 5000)
BackoffDelay(i) == Min(1000 * 2^i, 5000)

\* for (let i = 0; i < retries; i++): the loop goes on with i, or is over
\* and the function returns false
LoopFrom(i) ==
  IF i < probe.retries
  THEN [probe EXCEPT !.pc = "fetch", !.i = i]
  ELSE [probe EXCEPT !.pc = "done", !.i = i, !.result = "false"]

\* checkInternetConnection(retries) is called: up to the first await
CheckInternetConnection(retries) ==
  /\ probe.pc = "idle"
  /\ probe' = IF 0 < retries
              THEN [probe EXCEPT !.pc = "fetch", !.retries = retries]
              ELSE [probe EXCEPT !.pc = "done", !.retries = retries, !.result = "false"]
  /\ UNCHANGED idVars
  /\ UNCHANGED <<syncVars, rotVars, appVars, envVars, selVars, pathVars>>

\* (variant used to test C31) the catch block giving up at the first
\* rejected request
FetchSettledGivesUp(outcome) ==
  LET i == probe.i
      entry(delay) == [i |-> i, outcome |-> outcome, delay |-> delay]
  IN
  /\ probe.pc = "fetch"
  /\ IF outcome.kind = "response"
     THEN IF outcome.status >= 200 /\ outcome.status < 400
          THEN probe' = [probe EXCEPT !.pc = "done", !.result = "true",
                                      !.log = Append(@, entry(0))]
          ELSE probe' = [LoopFrom(i + 1) EXCEPT !.log = Append(@, entry(0))]
     ELSE probe' = [probe EXCEPT !.pc = "done", !.result = "false",
                                 !.log = Append(@, entry(0))]
  /\ UNCHANGED idVars
  /\ UNCHANGED <<syncVars, rotVars, appVars, envVars, selVars, pathVars>>

\* the await of fetch settles: the status test of the try block, or the
\* catch block up to its await of the backoff timer
FetchSettled(outcome) ==
  LET i == probe.i
      entry(delay) == [i |-> i, outcome |-> outcome, delay |-> delay]
  IN
  /\ probe.pc = "fetch"
  /\ IF outcome.kind = "response"
     THEN IF outcome.status >= 200 /\ outcome.status < 400
          THEN probe' = [probe EXCEPT !.pc = "done", !.result = "true",
                                      !.log = Append(@, entry(0))]
          ELSE probe' = [LoopFrom(i + 1) EXCEPT !.log = Append(@, entry(0))]
     ELSE IF i = probe.retries - 1
          THEN probe' = [probe EXCEPT !.pc = "done", !.result = "false",
                                      !.log = Append(@, entry(0))]
          ELSE probe' = [probe EXCEPT !.pc = "delay",
                                      !.log = Append(@, entry(BackoffDelay(i)))]
  /\ UNCHANGED idVars
  /\ UNCHANGED <<syncVars, rotVars, appVars, envVars, selVars, pathVars>>

\* the backoff timer fires: the loop goes on
BackoffElapsed ==
  /\ probe.pc = "delay"
  /\ probe' = LoopFrom(probe.i + 1)
  /\ UNCHANGED idVars
  /\ UNCHANGED <<syncVars, rotVars, appVars, envVars, selVars, pathVars>>

NextProbe ==
  \/ \E retries \in 0..MaxProbeRetries : CheckInternetConnection(retries)
  \/ \E outcome \in ProbeOutcomes : FetchSettled(outcome)
  \/ BackoffElapsed

InitProbe == Init /\ files = {}

SpecProbe == InitProbe /\ [][NextProbe]_vars

\* every fetch settles (its own answer, or the abort of the 5 s timer) and
\* every backoff timer fires
FairProbe == SpecProbe /\ WF_vars(NextProbe)

(***************************************************************************)
(* Part VII - the device name taken alone: getDeviceName of                *)
(* services/DeviceName.ts ("service") and of unnamed/part_003 ("app"), one *)
(* action per stretch between awaits, and the AsyncStorage.clear() of the  *)
(* restart flag (unnamed/part_003, fetchPlaylist)                          *)
(***************************************************************************)
\* calls of getDeviceName in one behaviour
MaxDeviceCalls == 3
\* the largest value of Date.now() (ms after the start) followed
MaxNow == 2

\* what Settings.Global.DEVICE_NAME can hold: a name the user has set, the
\* placeholder "unknown", nothing
TvBoxName == <<"T", "V", " ", " ", "B", "o", "x", "#", "1">>
UnknownName == <<"u", "n", "k", "n", "o", "w", "n">>
SettingsNames == {TvBoxName, UnknownName, <<>>}

\* Math.random().toString(36).substring(2, 9): what two draws can give
RandomTails == {<<"k", "3", "f">>, <<"8", "z", "q">>}

\* .replace(/[^a-zA-Z0-9-_.]/g, "_")
ReplaceUnsafe(s) ==
  [k \in 1..Len(s) |->
     IF IsAlphaNum(s[k]) \/ s[k] \in {"-", "_", "."} THEN s[k] ELSE "_"]

RECURSIVE CollapseUnderscores(_)
\* .replace(/_{2,}/g, "_")
CollapseUnderscores(s) ==
  IF Len(s) < 2 THEN s
  ELSE IF s[1] = "_" /\ s[2] = "_" THEN CollapseUnderscores(Tail(s))
  ELSE <<s[1]>> \o CollapseUnderscores(Tail(s))

\* the name made safe for the URL
CleanDeviceName(s) == ToLowerCase(CollapseUnderscores(ReplaceUnsafe(s)))

\* `T95_${Math.random()...}` and `tvbox_${Date.now()}`
GeneratedName(tail) == <<"T", "9", "5", "_">> \o tail
FallbackName(t) == <<"t", "v", "b", "o", "x", "_">> \o DecimalString(t)

\* the name the app uses when the native module rejects
T95TvBox == <<"T", "9", "5", "_", "T", "V", "_", "B", "o", "x">>

\* if (!deviceName || deviceName === "unknown" || deviceName === "")
Validated(name, tail) ==
  IF name = <<>> \/ name = UnknownName THEN GeneratedName(tail) ELSE name

DeviceCallIds == 1..MaxDeviceCalls

\* the calls that have returned a name
ReturnedCalls == {j \in 1..Len(deviceCalls) : deviceCalls[j].pc = "done"}

\* getDeviceName() is called: up to the await of AsyncStorage.getItem
GetDeviceName(impl) ==
  /\ Len(deviceCalls) < MaxDeviceCalls
  /\ \A j \in 1..Len(deviceCalls) : deviceCalls[j].impl = impl
  /\ deviceCalls' =
       Append(deviceCalls,
              [impl |-> impl, pc |-> "getItem", name |-> <<>>, result |-> <<>>,
               after |-> ReturnedCalls])
  /\ UNCHANGED <<deviceNameItem, androidDeviceName, dateNow>>
  /\ UNCHANGED <<syncVars, rotVars, appVars, envVars, selVars, pathVars, probe>>

\* the catch block up to its await of AsyncStorage.setItem
CatchFallback(i) ==
  [deviceCalls EXCEPT ![i].pc = "fallback", ![i].name = FallbackName(dateNow)]

\* AsyncStorage.getItem("deviceName") has answered (ok) or thrown: a saved
\* name is returned; without one the native module is asked
ItemRead(i, ok) ==
  /\ deviceCalls[i].pc = "getItem"
  /\ deviceCalls' =
       IF ~ok THEN CatchFallback(i)
       ELSE IF deviceNameItem # <<>>
       THEN [deviceCalls EXCEPT ![i].pc = "done", ![i].result = deviceNameItem]
       ELSE [deviceCalls EXCEPT ![i].pc = "native"]
  /\ UNCHANGED <<deviceNameItem, androidDeviceName, dateNow>>
  /\ UNCHANGED <<syncVars, rotVars, appVars, envVars, selVars, pathVars, probe>>

\* AndroidSettingsModule.getDeviceName() has settled: it resolves with the
\* name of the settings and rejects when there is none or on an exception
\* (threw); then the validation and the cleaning, up to the await of setItem
NativeAnswered(i, threw, tail) ==
  LET rejected == threw \/ androidDeviceName = <<>>
      impl == deviceCalls[i].impl
  IN
  /\ deviceCalls[i].pc = "native"
  /\ deviceCalls' =
       IF rejected /\ impl = "service" THEN CatchFallback(i)
       ELSE LET actualDeviceName == IF rejected THEN T95TvBox ELSE androidDeviceName
            IN [deviceCalls EXCEPT
                  ![i].pc = "setItem",
                  ![i].name = CleanDeviceName(Validated(actualDeviceName, tail))]
  /\ UNCHANGED <<deviceNameItem, androidDeviceName, dateNow>>
  /\ UNCHANGED <<syncVars, rotVars, appVars, envVars, selVars, pathVars, probe>>

\* AsyncStorage.setItem("deviceName", cleanDeviceName) has answered or thrown
ItemStored(i, ok) ==
  /\ deviceCalls[i].pc = "setItem"
  /\ IF ok
     THEN /\ deviceNameItem' = deviceCalls[i].name
          /\ deviceCalls' = [deviceCalls EXCEPT ![i].pc = "done",
                                                ![i].result = deviceCalls[i].name]
     ELSE /\ deviceCalls' = CatchFallback(i)
          /\ UNCHANGED deviceNameItem
  /\ UNCHANGED <<androidDeviceName, dateNow>>
  /\ UNCHANGED <<syncVars, rotVars, appVars, envVars, selVars, pathVars, probe>>

\* the setItem of the catch block has answered, or thrown: the call rejects
FallbackStored(i, ok) ==
  /\ deviceCalls[i].pc = "fallback"
  /\ IF ok
     THEN /\ deviceNameItem' = deviceCalls[i].name
          /\ deviceCalls' = [deviceCalls EXCEPT ![i].pc = "done",
                                                ![i].result = deviceCalls[i].name]
     ELSE /\ deviceCalls' = [deviceCalls EXCEPT ![i].pc = "rejected"]
          /\ UNCHANGED deviceNameItem
  /\ UNCHANGED <<androidDeviceName, dateNow>>
  /\ UNCHANGED <<syncVars, rotVars, appVars, envVars, selVars, pathVars, probe>>

\* fetchPlaylist of the app sees functions.is_restarting: AsyncStorage.clear()
ClearStorage ==
  /\ deviceCalls # <<>>
  /\ deviceCalls[1].impl = "app"
  /\ deviceNameItem' = <<>>
  /\ UNCHANGED <<androidDeviceName, dateNow, deviceCalls>>
  /\ UNCHANGED <<syncVars, rotVars, appVars, envVars, selVars, pathVars, probe>>

\* a millisecond passes
ClockTick ==
  /\ dateNow < MaxNow
  /\ dateNow' = dateNow + 1
  /\ UNCHANGED <<deviceNameItem, androidDeviceName, deviceCalls>>
  /\ UNCHANGED <<syncVars, rotVars, appVars, envVars, selVars, pathVars, probe>>

NextDevice ==
  \/ \E impl \in {"service", "app"} : GetDeviceName(impl)
  \/ \E i \in DeviceCallIds, ok \in BOOLEAN : i <= Len(deviceCalls) /\ ItemRead(i, ok)
  \/ \E i \in DeviceCallIds, threw \in BOOLEAN, tail \in RandomTails :
       i <= Len(deviceCalls) /\ NativeAnswered(i, threw, tail)
  \/ \E i \in DeviceCallIds, ok \in BOOLEAN : i <= Len(deviceCalls) /\ ItemStored(i, ok)
  \/ \E i \in DeviceCallIds, ok \in BOOLEAN : i <= Len(deviceCalls) /\ FallbackStored(i, ok)
  \/ ClearStorage
  \/ ClockTick

InitDevice ==
  /\ InitSync
  /\ files = {}
  /\ NoSelection
  /\ NoPathCalls
  /\ NoPage
  /\ NoApp
  /\ probe = IdleProbe
  /\ deviceNameItem = <<>>
  /\ androidDeviceName \in SettingsNames
  /\ dateNow = 0
  /\ deviceCalls = <<>>

SpecDevice == InitDevice /\ [][NextDevice]_vars

(***************************************************************************)
(* Part I taken with the offline path only, over the cache directories a    *)
(* previous run, a purge of the cache or a broken write can leave behind:  *)
(* getCachedAssets                                                         *)
(***************************************************************************)
ManifestEntries ==
  { PrevRunLocal,
    <<WebLocal(AssetB), FileLocal(AssetC, 2)>>,
    <<FileLocal(AssetA, 1), FileLocal(AssetC, 2)>>,
    <<FileLocal(AssetC, 2), WebLocal(AssetB), FileLocal(AssetA, 1)>> }

ManifestFiles ==
  {NoManifest}
    \cup {ManifestFile(content, as) :
            content \in {"manifest", "garbled", "noassets", "unreadable"},
            as \in ManifestEntries}

InitCache ==
  /\ SyncStart
  /\ manifest \in ManifestFiles
  /\ files \in SUBSET {1, 2}
  /\ goodManifest = <<>>
  /\ nextFile = 3
  /\ NoSelection
  /\ NoPathCalls
  /\ NoServiceCalls
  /\ NoPage
  /\ NoApp

NextCache ==
  \/ Mount
  \/ RetryFire
  \/ \E c \in Cycles, b \in BOOLEAN : Probe(c, b)
  \/ \E c \in Cycles : OfflineLoad(c)

SpecCache == InitCache /\ [][NextCache]_vars

(***************************************************************************)
(* Part I taken with one run of loadContent and lists of every family:     *)
(* downloadAssets and downloadSingleAsset                                  *)
(***************************************************************************)
NextDl ==
  \/ Mount
  \/ \E c \in Cycles, b \in BOOLEAN : Probe(c, b)
  \/ \E c \in Cycles : OfflineLoad(c)
  \/ \E c \in Cycles, ok \in BOOLEAN : Fetch(c, ok)
  \/ \E c \in Cycles : ClearCache(c)
  \/ \E c \in Cycles, ok \in BOOLEAN : DownloadDone(c, ok)
  \/ \E c \in Cycles : SaveAndHandoff(c)
  \/ \E p \in DlPayloads : RemoteEdit(p)

SpecDl == Init /\ [][NextDl]_vars

(***************************************************************************)
(* Part I - properties                                                     *)
(***************************************************************************)
\* the downloads in flight: a run at "download" awaits downloadAsync for
\* its asset k
Downloading(c) == cyc[c].pc = "download"

DownloadingPath(c) == cyc[c].assets[cyc[c].k].filepath

\* the run has passed its connectivity check and has not ended its
\* cache/handoff step
PastConnectivityCheck(c) == cyc[c].pc \in {"cached", "fetch", "clear", "download", "save"}

\* C1: sync cycles are single-flight: no run of loadContent begins while an
\* earlier run is between its connectivity check and the end of its
\* cache/handoff step.
C1_SingleFlight ==
  [][ncyc' # ncyc => \A c \in Cycles : ~PastConnectivityCheck(c)]_vars

\* a run ends in this step without having fully succeeded, after its fetch
EndsUnsuccessful(c) ==
  /\ cyc[c].pc \in {"clear", "download", "save"}
  /\ cyc'[c].pc = "done"
  /\ audit'[c].outcome \in {"error", "partial"}

\* C2: a run that does not fully succeed (some or all downloads fail) leaves
\* the previously valid manifest intact: when it ends, getCachedAssets still
\* returns the entries saved by the last fully successful run.
C2_ManifestKept ==
  [][\A c \in Cycles :
       EndsUnsuccessful(c) => GetCachedAssets(manifest', files') = goodManifest]_vars

\* C3: at every moment there is at most one download in flight per filepath.
C3_OneDownloadPerFilepath ==
  \A c1, c2 \in Cycles :
    (Downloading(c1) /\ Downloading(c2) /\ DownloadingPath(c1) = DownloadingPath(c2))
      => c1 = c2

\* run c ran after run p: p had ended when c began, p's fetch was the last
\* one to return before c's, and both fetched the same non-empty payload
RanTwice(p, c) ==
  /\ p \in Cycles
  /\ p \in audit[c].doneAtStart
  /\ audit[c].prev = p
  /\ audit[c].fetched # <<>>
  /\ audit[c].fetched = audit[p].fetched

\* C4: running the cycle twice with an identical payload triggers one
\* download pass: the second run calls neither clearCache nor downloadAssets
\* (no transfer is attempted) and does not call setHtmlContent.
C4_SecondRunIdle ==
  \A p, c \in Cycles :
    RanTwice(p, c) =>
      (~audit[c].cleared /\ audit[c].attempts = 0 /\ ~audit[c].handed
        /\ cyc[c].pc = "done" /\ audit[c].outcome = "unchanged")

\* the second of two runs with the same payload has ended, the first one
\* having downloaded and handed over
C4_Witness ==
  \E p, c \in Cycles :
    /\ RanTwice(p, c)
    /\ cyc[c].pc = "done"
    /\ audit[p].handed /\ audit[p].attempts > 0
    /\ htmlContent # <<>>

\* the offline path of run c returns in this step
LeavesOfflinePath(c) == cyc[c].pc = "cached" /\ cyc'[c].pc # "cached"

\* C11: when the connectivity probe has failed and getCachedAssets yields at
\* least one entry, the run hands exactly those entries to the page and
\* ends: it has fetched no playlist, cleared nothing and attempted no
\* download.
C11_OfflineFromManifest ==
  /\ [][\A c \in Cycles :
         (LeavesOfflinePath(c) /\ Len(GetCachedAssets(manifest, files)) > 0)
           => /\ htmlContent' = GetCachedAssets(manifest, files)
              /\ audit'[c].outcome = "offline"
              /\ cyc'[c].pc = "done"]_vars
  /\ [](\A c \in Cycles :
         audit[c].outcome = "offline"
           => /\ cyc[c].pc = "done"
              /\ audit[c].fetched = <<>>
              /\ ~audit[c].cleared
              /\ audit[c].attempts = 0)

\* a run has ended on the offline path and the page shows the manifest's
\* entries of the previous run of the process
C11_Witness ==
  \E c \in Cycles :
    /\ audit[c].outcome = "offline"
    /\ cyc[c].pc = "done"
    /\ isOffline
    /\ htmlContent = PrevRunLocal

\* C12: when the connectivity probe has failed and getCachedAssets yields no
\* entry, the run ends as a failure, the error state is what the user sees,
\* and a retry timer has been armed.
C12_OfflineNoCacheSurfaced ==
  [][\A c \in Cycles :
       (LeavesOfflinePath(c) /\ Len(GetCachedAssets(manifest, files)) = 0)
         => /\ audit'[c].outcome = "error"
            /\ cyc'[c].pc = "done"
            /\ retryTimers' = retryTimers + 1
            /\ Screen' = "error"]_vars

\* C14: a run of loadContent that starts cancels the pending retry or
\* reconnect timer, so that at most one such timer is ever pending.
C14_RetryCancelledOnStart ==
  /\ [][ncyc' # ncyc => retryTimers' = 0]_vars
  /\ [](retryTimers <= 1)

\* C15: once the component is unmounted no timer callback runs any more: no
\* run of loadContent starts, and no pending retry or reconnect timer fires.
C15_NothingAfterUnmount ==
  [][unmounted => (ncyc' = ncyc /\ retryTimers' >= retryTimers)]_vars

\* fetchPlaylist returns a non-empty list to run c in this step
FetchReturns(c) ==
  /\ cyc[c].pc = "fetch"
  /\ cyc'[c].pc # "fetch"
  /\ audit'[c].outcome # "error"

\* C16: a run whose fetched payload carries functions.is_restarting = true
\* goes on to clear the local state, whether or not the resolved list
\* differs from the previous run's.
C16_RestartClears ==
  [][\A c \in Cycles : (FetchReturns(c) /\ restarting) => cyc'[c].pc = "clear"]_vars

\* run c ends in the catch block in this step
EndsInError(c) ==
  /\ Running(c)
  /\ cyc'[c].pc = "done"
  /\ audit'[c].outcome = "error"

\* C17: content handed to the page is never taken away by a failing run: the
\* step in which a run fails leaves htmlContent as it is, htmlContent never
\* becomes empty again, and while content has been loaded the component
\* renders the page, never the error state (nor the loading state).
C17_ContentKept ==
  /\ [][\A c \in Cycles : EndsInError(c) => htmlContent' = htmlContent]_vars
  /\ [][htmlContent # <<>> => htmlContent' # <<>>]_vars
  /\ [](htmlContent # <<>> => Screen = "page")
  /\ [](Screen = "error" => htmlContent = <<>>)

\* a run has failed and armed its retry while content was showing
C17_Witness ==
  \E c \in Cycles :
    /\ audit[c].outcome = "error"
    /\ cyc[c].pc = "done"
    /\ error # ""
    /\ retryTimers > 0
    /\ htmlContent # <<>>
    /\ Screen = "page"

\* the assets the resolved list is to hold: a non-empty filepath and a time
\* that parses to an integer greater than 0
HasPathAndDuration(a) == a.filepath # "" /\ ParseInt(a.time) > 0

\* `list` holds exactly the assets of `playlist` that are to be kept
ExactlyTheValid(list, playlist) ==
  /\ \A i \in 1..Len(list) :
       HasPathAndDuration(list[i]) /\ \E j \in 1..Len(playlist) : playlist[j] = list[i]
  /\ \A j \in 1..Len(playlist) :
       HasPathAndDuration(playlist[j]) => \E i \in 1..Len(list) : list[i] = playlist[j]
  /\ Len(list) = Cardinality({j \in 1..Len(playlist) : HasPathAndDuration(playlist[j])})

\* fetchPlaylist answers run c in this step, with a playlist none of whose
\* assets is to be kept
FetchesNothingValid(c) ==
  /\ cyc[c].pc = "fetch"
  /\ cyc'[c].pc # "fetch"
  /\ error' # "API fetch error"
  /\ \A j \in 1..Len(remote) : ~HasPathAndDuration(remote[j])

\* C20: the list a run gets from fetchPlaylist holds exactly the assets of
\* the playlist with a non-empty filepath and a time parsing to an integer
\* above 0; when none is left the run fails with the 'no valid assets'
\* error: it clears nothing, downloads nothing and hands nothing to the page.
C20_OnlyValidAssets ==
  /\ [][\A c \in Cycles :
         FetchReturns(c) => ExactlyTheValid(audit'[c].fetched, remote)]_vars
  /\ [][\A c \in Cycles :
         FetchesNothingValid(c)
           => /\ error' = "No valid assets found in playlist"
              /\ audit'[c].outcome = "error"
              /\ cyc'[c].pc = "done"
              /\ ~audit'[c].cleared
              /\ audit'[c].attempts = 0
              /\ ~audit'[c].handed
              /\ htmlContent' = htmlContent
              /\ files' = files /\ manifest' = manifest]_vars

\* a run has failed on a playlist whose two assets were both dropped
C20_Witness ==
  /\ remote = <<AssetNoPath, AssetNoTime>>
  /\ error = "No valid assets found in playlist"
  /\ \E c \in Cycles : audit[c].outcome = "error" /\ cyc[c].pc = "done"

(***************************************************************************)
(* Part II - properties                                                    *)
(***************************************************************************)
\* a timer of the page is pending, or a play() promise is
TimerPending ==
  \/ rotationTimeout \/ orphanTimers > 0 \/ showTimers > 0 \/ transTimer
  \/ skipTimers > 0 \/ webContentLoadTimeout \/ videoLoadTimeout
  \/ playPending > 0

\* the loaded item has reported neither success nor failure yet
AwaitingSignal == frameHandler = "armed" \/ imagePending > 0 \/ videoHandler = "armed"

\* C5: the rotation never depends on a load signal to advance: while the
\* shown item has reported neither success nor failure, a timer is pending
\* that moves the rotation on if the surface stays silent.
C5_NeverWaitsForSignal == AwaitingSignal => TimerPending

\* the step in which the item at currentIndex is put on the surface
Shows == transTimer /\ ~transTimer' /\ reloads' = reloads

C7_NoDoubleAdvance ==
  [][(Shows /\ failSignals = 2)
       => loadedIndex' = (loadedIndex + 1) % Len(contentList)]_vars

\* the least delay the auto-advance timer of the item loaded last may have:
\* max(duration, 1 s)
ShownItemFloorMs == 1000 * Max(ItemDuration(contentList[loadedIndex + 1]), 1)

\* C23: the auto-advance timer pending while an item is on the page (the one
\* whose expiry advances the rotation) was armed with a delay of at least
\* max(duration of that item, 1) seconds.
C23_TimerNotShorter ==
  (rotationTimeout /\ loadedIndex >= 0) => armedMs >= ShownItemFloorMs

\* C24: while isTransitioning is set, no step of the page other than its
\* replacement by a new page changes currentIndex, and the item that gets
\* loaded is the one currentIndex pointed at: a timer expiry or an error
\* skip arriving meanwhile is dropped. In unnamed/part_003 an error-skip
\* timer firing while isTransitioning.current is set leaves the index, the
\* playing flag and the playback timer alone.
C24_IgnoredWhileTransitioning ==
  /\ [][(isTransitioning /\ reloads' = reloads) =>
          /\ currentIndex' = currentIndex
          /\ loadedIndex' \in {loadedIndex, currentIndex}]_vars
  /\ [][(transitioningRef /\ errorSkipTimers' # errorSkipTimers
                          /\ errorSkipTimers' \subseteq errorSkipTimers) =>
          UNCHANGED <<currentAssetIndex, isPlaying, playbackTimer>>]_vars

\* a transition is in progress, the two skip requests raised for the item
\* loaded last have both fired, and the index is one ahead of that item: one
\* of the requests was dropped
C24_Witness ==
  /\ Len(contentList) = 2
  /\ isTransitioning
  /\ loadedIndex >= 0
  /\ failSignals = 2
  /\ skipTimers = 0
  /\ orphanTimers = 0
  /\ ~rotationTimeout
  /\ showTimers = 0
  /\ currentIndex # loadedIndex

(***************************************************************************)
(* Part III - properties                                                   *)
(***************************************************************************)
\* the step of the legacy script that shows an item after the one before
\* it reported a failure
LegacyShowsAfterFailure == failSignals > 0 /\ failSignals' = 0

\* C8: a failure reported while index i is showing makes (i+1) mod n the
\* next index shown; index (i+1) mod n is not skipped.
C8_FailureAdvancesToNext ==
  [][LegacyShowsAfterFailure
       => loadedIndex' = (loadedIndex + 1) % Len(contentList)]_vars

(***************************************************************************)
(* Part IV - properties                                                    *)
(***************************************************************************)
\* the timers created while an earlier list was being played
StaleTimers ==
  {t \in errorSkipTimers : t.gen # listGen} \cup {g \in transitionTimers : g # listGen}

\* C9: when a changed list is handed over, no timer of the old list is left
\* pending, and until the new list starts playing the index is 0.
C9_HardReset == awaitingRestart => (StaleTimers = {} /\ currentAssetIndex = 0)

\* C13: retries are bounded: a failed initialisation arms a retry while fewer
\* than MAX_RETRIES retries have failed in a row; once MAX_RETRIES retries
\* have failed, no retry is armed and the terminal error is shown.
C13_RetriesBounded ==
  initPc = "failed" =>
    IF retryCount < MAX_RETRIES
    THEN retryTimer /\ appError # ""
    ELSE ~retryTimer /\ appError = "Maximum retry attempts exceeded"

(***************************************************************************)
(* Part V - properties                                                     *)
(***************************************************************************)
\* playlist j of the response is scheduled (not flagged default) and its
\* activity predicate holds at `now`
ScheduledActive(j) == ~playlists[j].is_default /\ IsPlaylistActive(playlists[j], now)

SomeScheduledActive == \E j \in 1..Len(playlists) : ScheduledActive(j)

\* C18: when some non-default playlist is active at `now`, the playlist
\* chosen is non-default and active, and no non-default playlist before it
\* in payload order is active.
C18_FirstMatch ==
  (activePlaylist > 0 /\ SomeScheduledActive) =>
    /\ ScheduledActive(activePlaylist)
    /\ \A j \in 1..(activePlaylist - 1) : ~ScheduledActive(j)

\* two scheduled playlists are active, with a default playlist before them,
\* and the choice has been made
C18_Witness ==
  /\ activePlaylist > 1
  /\ playlists[1].is_default
  /\ \E j \in 1..Len(playlists) : j > activePlaylist /\ ScheduledActive(j)

\* C19: when no non-default playlist is active at `now`, the playlist chosen
\* is the (first) one flagged default, and the first of the payload when
\* none is flagged default.
C19_Fallback ==
  (activePlaylist > 0 /\ ~SomeScheduledActive) =>
    IF \E j \in 1..Len(playlists) : playlists[j].is_default
    THEN /\ playlists[activePlaylist].is_default
         /\ \A j \in 1..(activePlaylist - 1) : ~playlists[j].is_default
    ELSE activePlaylist = 1

\* the fallback took a default playlist that is not the first of the payload
C19_Witness ==
  /\ activePlaylist > 1
  /\ ~SomeScheduledActive
  /\ playlists[activePlaylist].is_default

(***************************************************************************)
(* Part I - properties of downloadAssets                                   *)
(***************************************************************************)
RECURSIVE Succeeded(_, _, _)
\* the positions up to n of `as` whose resolution has succeeded: the type is
\* supported and the transfer, if any, has not failed
Succeeded(as, n, failed) ==
  IF n = 0 THEN <<>>
  ELSE IF Classify(as[n].filetype) # "none" /\ n \notin failed
       THEN Append(Succeeded(as, n - 1, failed), n)
       ELSE Succeeded(as, n - 1, failed)

\* l is what downloadSingleAsset returns for asset a
ResolvesTo(l, a) ==
  /\ l.type = Classify(a.filetype)
  /\ l.name = a.name
  /\ l.duration = ParseInt(a.time)
  /\ IF l.type = "web" THEN l.url = RemoteUrl(a.filepath) ELSE l.url.kind = "cache"

ExactlySucceeded(local, as, n, failed) ==
  LET pos == Succeeded(as, n, failed) IN
  /\ Len(local) = Len(pos)
  /\ \A j \in 1..Len(pos) : ResolvesTo(local[j], as[pos[j]])

\* C21: the list downloadAssets has built so far, and the list it returns,
\* holds exactly the assets resolved with success (supported type, transfer
\* answered 200), in input order, whatever failed before or between them;
\* and the run ends in an error after downloadAssets exactly when no asset
\* of the list succeeded.
C21_IndependentResolution ==
  \A c \in Cycles :
    /\ cyc[c].pc = "download" =>
         ExactlySucceeded(cyc[c].local, cyc[c].assets, cyc[c].k - 1, audit[c].failed)
    /\ cyc[c].pc = "save" =>
         ExactlySucceeded(cyc[c].local, cyc[c].assets, Len(cyc[c].assets),
                          audit[c].failed)
    /\ (cyc[c].pc = "done" /\ audit[c].cleared) =>
         (audit[c].outcome = "error" <=>
            Succeeded(audit[c].fetched, Len(audit[c].fetched), audit[c].failed) = <<>>)

\* downloadAssets returns a list although a transfer failed and a type was
\* unsupported before the asset that succeeded
C21_Witness ==
  \E c \in Cycles :
    /\ cyc[c].pc = "save"
    /\ 1 \in audit[c].failed
    /\ Classify(cyc[c].assets[2].filetype) = "none"
    /\ Len(cyc[c].local) = 1
    /\ cyc[c].local[1].name = cyc[c].assets[3].name

\* a manifest entry getCachedAssets has to keep: a web entry, or an entry
\* whose file is in the cache directory
KeptEntry(a) == a.type = "web" \/ (a.url.kind = "cache" /\ a.url.id \in files)

WellFormed(m) == m.present /\ m.content = "manifest"

NoCacheError == "No internet connection and no cached content available"

C26_DamagedManifestIsNoCache ==
  [][\A c \in Cycles :
       (LeavesOfflinePath(c) /\ ~WellFormed(manifest)) =>
         /\ error' = NoCacheError
         /\ htmlContent' = htmlContent
         /\ retryTimers' = retryTimers + 1
         /\ audit'[c].outcome = "error"]_vars

\* a run has ended with the no-cache error although the manifest file exists
\* (damaged) and the files its entries stood for are in the cache directory
C26_Witness ==
  \E c \in Cycles :
    /\ audit[c].outcome = "error"
    /\ error = NoCacheError
    /\ manifest.present
    /\ manifest.content \in {"garbled", "noassets", "unreadable"}
    /\ \A j \in 1..Len(manifest.assets) : KeptEntry(manifest.assets[j])

\* the key the resolved list is to be ordered by
OrderKey(a) == IF a.playing_order = <<>> THEN 0 ELSE ParseInt(a.playing_order)

Ascending(list) ==
  \A i, j \in 1..Len(list) : i < j => OrderKey(list[i]) <= OrderKey(list[j])

PositionIn(playlist, a) == CHOOSE j \in 1..Len(playlist) : playlist[j] = a

\* assets of equal key stand in `list` as they stand in `playlist`
KeepsPayloadOrder(list, playlist) ==
  \A i, j \in 1..Len(list) :
    (i < j /\ OrderKey(list[i]) = OrderKey(list[j]))
      => PositionIn(playlist, list[i]) < PositionIn(playlist, list[j])

\* C29: the list a run gets from fetchPlaylist is in ascending playing_order,
\* a missing playing_order counting as 0, and assets of equal playing_order
\* are in the order the payload has them.
C29_OrderedAndStable ==
  [][\A c \in Cycles :
       FetchReturns(c) =>
         /\ Ascending(audit'[c].fetched)
         /\ KeepsPayloadOrder(audit'[c].fetched, remote)]_vars

\* a run has got, for a payload out of order, the list with the asset
\* without playing_order first and the two assets of order 2 as in the payload
C29_Witness ==
  \E c \in Cycles :
    /\ remote = <<AssetC, AssetA, AssetM, AssetB>>
    /\ audit[c].fetched = <<AssetM, AssetA, AssetC, AssetB>>

\* run c ends in this step
Ends(c) == Running(c) /\ cyc'[c].pc = "done"

\* C30: whatever a run hands to the page holds at least one entry, on the
\* online path (the list downloadAssets returned) and on the offline path
\* (the list getCachedAssets returned); a run whose list came out empty ends
\* with an error, hands nothing over and leaves the page as it was.
C30_NeverEmptyHandoff ==
  /\ [][htmlContent' # htmlContent => Len(htmlContent') > 0]_vars
  /\ [][\A c \in Cycles :
         (Ends(c) /\ audit'[c].handed) => Len(htmlContent') > 0]_vars
  /\ [][\A c \in Cycles :
         (Ends(c) /\ cyc[c].pc = "cached" /\ GetCachedAssets(manifest, files) = <<>>)
           => /\ audit'[c].outcome = "error" /\ ~audit'[c].handed
              /\ error' = NoCacheError
              /\ htmlContent' = htmlContent]_vars
  /\ [][\A c \in Cycles :
         (Ends(c) /\ cyc[c].pc \in {"clear", "download"})
           => /\ audit'[c].outcome = "error" /\ ~audit'[c].handed
              /\ error' = "Failed to download any assets"
              /\ htmlContent' = htmlContent]_vars
  /\ [](\A c \in Cycles : cyc[c].pc = "save" => Len(cyc[c].local) > 0)

\* a run whose downloads all failed or were of no supported type has ended
\* with the error, and nothing was handed to the page
C30_Witness ==
  \E c \in Cycles :
    /\ cyc[c].pc = "done"
    /\ audit[c].cleared
    /\ audit[c].outcome = "error"
    /\ ~audit[c].handed
    /\ error = "Failed to download any assets"
    /\ htmlContent = <<>>

\* C22: an asset of type url, html or stream is resolved without a transfer
\* and without a cache file: downloadAssets never awaits a download for it
\* and its entry is a web entry whose url is the asset's filepath;
\* getAssetPath never awaits a transfer for it, leaves no file of it in the
\* cache directory and resolves to the asset's filepath.
C22_WebNeverTransferred ==
  /\ \A c \in Cycles :
       /\ cyc[c].pc = "download" => Classify(cyc[c].assets[cyc[c].k].filetype) # "web"
       /\ \A j \in 1..Len(cyc[c].local) :
            cyc[c].local[j].type = "web" => cyc[c].local[j].url.kind = "remote"
  /\ \A i \in 1..Len(pathCalls) :
       Classify(pathCalls[i].asset.filetype) = "web" =>
         /\ pathCalls[i].pc # "transfer"
         /\ ~FileExists(CacheFilenameOf(pathCalls[i].asset))
         /\ pathCalls[i].pc = "done" => pathCalls[i].result = OriginalUrl(pathCalls[i].asset)

\* playlist j is scheduled by dates only, by weekdays only
DatesOnly(j) ==
  /\ ~playlists[j].is_default
  /\ playlists[j].startdate # 0 \/ playlists[j].enddate # 0
  /\ playlists[j].weekdays = <<>>
  /\ playlists[j].starttime = <<>> /\ playlists[j].endtime = <<>>

WeekdaysOnly(j) ==
  /\ ~playlists[j].is_default
  /\ playlists[j].startdate = 0 /\ playlists[j].enddate = 0
  /\ playlists[j].weekdays # <<>>
  /\ playlists[j].starttime = <<>> /\ playlists[j].endtime = <<>>

\* the calendar day of `now` lies from startdate through enddate, a bound
\* that is not given being no bound
OnCalendarDays(j) ==
  /\ playlists[j].startdate # 0 => playlists[j].startdate <= now.day
  /\ playlists[j].enddate # 0 => now.day <= playlists[j].enddate

\* the short form of a weekday name given in either form
ShortDay(name) ==
  IF name \in DOMAIN dayMap THEN name
  ELSE CHOOSE k \in DOMAIN dayMap : dayMap[k] = name

ListsToday(j) ==
  \E i \in 1..Len(playlists[j].weekdays) : ShortDay(playlists[j].weekdays[i]) = now.weekday

\* C27: once the choice is made, a playlist scheduled by dates only has
\* counted as active exactly when the calendar day of `now` lies from its
\* startdate through its enddate, whatever the time of day.
C27_InclusiveDates ==
  activePlaylist # 0 =>
    \A j \in 1..Len(playlists) :
      DatesOnly(j) => (IsPlaylistActive(playlists[j], now) <=> OnCalendarDays(j))

\* C28: once the choice is made, a playlist scheduled by weekdays only has
\* counted as active exactly when the weekday of `now` is one of the names
\* listed, in short or in full form.
C28_WeekdayEitherForm ==
  activePlaylist # 0 =>
    \A j \in 1..Len(playlists) :
      WeekdaysOnly(j) => (IsPlaylistActive(playlists[j], now) <=> ListsToday(j))

\* C10: once a periodic check has completed, the list being rotated is the
\* list that check resolved from the server's answer.
C10_EditReflected == (check.pc = "idle" /\ observed # <<>>) => assets = observed

(***************************************************************************)
(* Part VII - properties of checkInternetConnection                        *)
(***************************************************************************)
\* an attempt that answered with a status in 200..399
Acceptable(entry) ==
  entry.outcome.kind = "response" /\ entry.outcome.status \in 200..399

Returned(value) == probe.pc = "done" /\ probe.result = value

\* C31: the probe terminates after at most `retries` attempts; it returns
\* true as soon as one attempt answers with a status in 200..399 (that
\* attempt is the last one made), and it returns false only after all
\* `retries` attempts have failed.
C31_ProbeTerminates ==
  /\ [](Len(probe.log) <= probe.retries)
  /\ [](\A k \in 1..Len(probe.log) :
          Acceptable(probe.log[k]) => k = Len(probe.log) /\ Returned("true"))
  /\ [](Returned("true") => probe.log # <<>> /\ Acceptable(probe.log[Len(probe.log)]))
  /\ [](Returned("false") =>
          /\ Len(probe.log) = probe.retries
          /\ \A k \in 1..Len(probe.log) : ~Acceptable(probe.log[k]))
  /\ (probe.pc # "idle") ~> (probe.pc = "done")

\* a call with three retries that returned true at its last attempt, after a
\* rejected request and an unacceptable status
C31_Witness ==
  /\ Returned("true")
  /\ probe.retries = 3
  /\ Len(probe.log) = 3
  /\ probe.log[1].outcome.kind = "rejected"
  /\ probe.log[2].outcome.kind = "response"

\* C32: between any two consecutive attempts of the probe there is a backoff
\* delay of min(1000 * 2^i, 5000) ms, i being the zero-based number of the
\* failed attempt, whether it failed by exception or timeout or by an
\* unacceptable status.
C32_BackoffBetweenAttempts ==
  \A k \in 1..Len(probe.log) :
    (k < Len(probe.log) \/ probe.pc \in {"fetch", "delay"}) =>
      probe.log[k].delay = Min(1000 * 2^(k - 1), 5000)

(***************************************************************************)
(* Part VII - properties of getDeviceName                                  *)
(***************************************************************************)
\* C33: the device identity is stable: once getDeviceName has returned an
\* identifier, every call made later returns the same identifier, also
\* after a lookup error and after the restart signal has cleared the local
\* state.
C33_StableIdentity ==
  \A j \in ReturnedCalls :
    \A i \in deviceCalls[j].after : deviceCalls[j].result = deviceCalls[i].result

(***************************************************************************)
(* Part I - properties of change detection                                 *)
(***************************************************************************)
\* run c takes the "content unchanged" shortcut in this step
TakesShortcut(c) ==
  audit[c].outcome # "unchanged" /\ audit'[c].outcome = "unchanged"

\* the list remembered in lastFetchedAssets has been handed to the page by a
\* run of the online path, or the run that remembered it is still busy
\* clearing, downloading or saving
RememberedListServed ==
  \E d \in Cycles :
    /\ audit[d].fetched = lastFetchedAssets
    /\ \/ audit[d].handed /\ audit[d].outcome \in {"ok", "partial"}
       \/ cyc[d].pc \in {"clear", "download", "save"}

\* C34: change detection never suppresses a needed download: a run takes
\* the "content unchanged" shortcut only if the remembered previous list was
\* downloaded and handed to rotation by an earlier successful run (a run
\* still at work on that list is let pass here); after a run in which every
\* download failed, the retry with the same payload downloads again.
C34_ShortcutOnlyAfterHandoff ==
  [][\A c \in Cycles : TakesShortcut(c) => RememberedListServed]_vars

(***************************************************************************)
(* Part I - properties of the cache directory                              *)
(***************************************************************************)
\* the files of CACHE_DIR a list of LocalAssets refers to
FilesOf(local) ==
  {local[k].url.id : k \in {j \in 1..Len(local) : local[j].url.kind = "cache"}}

\* C35: every local file referenced by the content currently handed to
\* rotation exists in the cache directory: no later run (successful, failed
\* or still in flight) deletes files of the content still being shown.
C35_ShownFilesExist == FilesOf(htmlContent) \subseteq files

\* C36: under any interleaving of runs, whenever a persisted manifest exists
\* and no run is in flight, every image or video entry of the manifest
\* refers to a file that exists in the cache directory.
C36_ManifestFilesExist ==
  (manifest.present /\ InFlight = {}) => FilesOf(manifest.assets) \subseteq files

(***************************************************************************)
(* Part II - properties of the index                                       *)
(***************************************************************************)
\* C37: in the rotation script the item on screen corresponds to
\* currentIndex once a transition has completed (no showContent pending or
\* under way), and every increment of currentIndex by rotateToNext is
\* followed by showContent loading contentList[currentIndex]: no index is
\* advanced past without having been shown.
C37_EveryIndexShown ==
  /\ []((~isTransitioning /\ showTimers = 0 /\ loadedIndex >= 0)
          => loadedIndex = currentIndex)
  /\ [][(currentIndex' # currentIndex /\ reloads' = reloads)
          => loadedIndex = currentIndex]_vars

\* some run of the online path has handed its list to the page
OnlineHandoffDone ==
  \E c \in Cycles : audit[c].handed /\ audit[c].outcome \in {"ok", "partial"}

\* C38: manifest round trip: after a successful online run, and as long as
\* nothing of the cache has been deleted since (the manifest it wrote is
\* still there), getCachedAssets returns the list that run handed to
\* rotation, same entries in the same order, so that an offline run
\* replays exactly the last online content.
C38_ManifestRoundTrip ==
  (OnlineHandoffDone /\ manifest.present)
    => GetCachedAssets(manifest, files) = htmlContent

(***************************************************************************)
(* Part VI - properties of the cache key                                   *)
(***************************************************************************)
\* C39: the cache key is injective: two assets with different (filepath,
\* filetype) are mapped by getCacheFilename to different file names, so a
\* call of getAssetPath that resolves to a file of the cache gets the file
\* downloaded for the asset it asked for and never another asset's file.
C39_CacheKeyInjective ==
  /\ \A i, j \in 1..Len(pathCalls) :
       <<pathCalls[i].asset.filepath, pathCalls[i].asset.filetype>>
           # <<pathCalls[j].asset.filepath, pathCalls[j].asset.filetype>>
         => CacheFilenameOf(pathCalls[i].asset) # CacheFilenameOf(pathCalls[j].asset)
  /\ \A i \in 1..Len(pathCalls) :
       pathCalls[i].result.kind = "local" =>
         pathCalls[i].served = pathCalls[i].asset.filepath

====
